---- MODULE Spec2Model ----
(***************************************************************************)
(* Handshake engines, secure channel and connection server of the          *)
(* Quantum-performance-simulator: PQCServer (server_pqc.py), PQCClient     *)
(* (client_pqc.py), ClassicalClient (client_classical.py) and the          *)
(* ClassicalServer the tests and the benchmark import.                     *)
(*                                                                         *)
(* One server object runs start() on its own thread; one client object is  *)
(* driven by a caller (connect, send_message, disconnect); stop() and the  *)
(* test's event.clear() come from the caller's thread.  The TCP stream of  *)
(* a connection is a sequence of tokens per direction: a header token      *)
(* <<"len", n>> stands for the 4 length bytes of a field, a payload token  *)
(* for the n payload bytes that follow it (n = 0: no payload token).  The  *)
(* network may replace a field in flight by one an active attacker can     *)
(* build, and may cut a connection at any token boundary.  The caller      *)
(* opens connections one after the other, as the tests and the benchmark   *)
(* do: the next one once both ends of the previous one are closed.         *)
(*                                                                         *)
(* server_classical.py is not among the sources.  ClassicalServer is taken *)
(* to be PQCServer with the server role of the classical handshake (send   *)
(* the ECDH public key, receive the peer's, derive the key with HKDF) in   *)
(* the place of the post-quantum one.                                      *)
(*                                                                         *)
(* Spec is the system on a reliable network; SpecAttack puts an active     *)
(* attacker on the network, in front of a server that is not stopped;      *)
(* SpecRetry lets the client dial again after a handshake the network      *)
(* broke.  SpecObserver adds the test's event.clear(), SpecLive and        *)
(* SpecAttackLive the scheduling of the server thread, SpecRecv the        *)
(* byte-level receive loop.                                                *)
(* SpecBench is run_all_benchmarks (benchmark.py), SpecPenalty its         *)
(* penalty function on its own, SpecMeasure and SpecMeasureLive one        *)
(* measure function interleaved with the server thread it starts.          *)
(***************************************************************************)
EXTENDS Integers, Sequences, FiniteSets, TLC

\* ------------------------------------------------------------------ bounds
MaxConns == 2        \* connections the client opens, reliable network
MaxSend  == 2        \* send_message calls per connection, reliable network
MaxPayload == 2           \* bytes in the payload of a field read byte by byte
IterationsPerMode == 2    \* ITERATIONS_PER_MODE, 50 in benchmark.py
UniformSteps == 2         \* steps of random.uniform between its two ends
MaxAttackConns == 1  \* the same two under an active attacker
MaxAttackSend  == 1

\* ------------------------------------------------------- program constants
AES_KEY_LEN == 32      \* shared_secret[:32]
HKDF_LENGTH == 32      \* HKDF(length=32)
KEM_SECRET_LEN == 32   \* Kyber768 shared secret, bytes
ECDH_SECRET_LEN == 48  \* SECP384R1 shared secret, bytes
NONCE_LEN == 12        \* os.urandom(12)

None == <<"None">>
HKDF_INFO == "handshake data"

Min(a, b) == IF a < b THEN a ELSE b

\* ------------------------------------------------- cryptographic primitives
\* Every value on the wire is a tuple whose first element is a tag.
\* Principals: "S" the server, "C" the client, "A" the attacker.
SigPk(o)  == <<"sigpk", o, "-", "-", "-">>
KemPk(o)  == <<"kempk", o, "-", "-", "-">>
EcPub(o)  == <<"ecpub", o, "-", "-", "-">>
\* a KEM ciphertext encapsulated against KemPk(o) with the randomness of r
Ct(o, r)  == <<"ct", o, r, "-", "-">>
Junk      == <<"junk", "-", "-", "-", "-">>
\* a PEM public key that is no SECP384R1 key (another curve, another scheme)
OtherPem  == <<"pem", "A", "-", "-", "-">>
Empty     == <<"empty", "-", "-", "-", "-">>

\* sig.sign(message) with the signing key of `signer`
Sign(signer, m) == <<"sig", signer, m[1], m[2], m[3]>>

\* sig.verify(message, signature, public_key)
SigVerify(m, s, pk) ==
    /\ s[1] = "sig"
    /\ pk[1] = "sigpk"
    /\ s[2] = pk[2]
    /\ <<s[3], s[4], s[5]>> = <<m[1], m[2], m[3]>>

\* kem.encap_secret(public_key) by principal r: (ciphertext, shared secret).
EncapCt(pk, r)     == IF pk[1] = "kempk" THEN Ct(pk[2], r) ELSE Ct("?", r)
EncapSecret(pk, r) == IF pk[1] = "kempk" THEN <<"ss", "kem", pk[2], r>>
                                         ELSE <<"ss", "kem", "?", r>>

\* kem.decap_secret(ciphertext) with the private key of `owner`: the secret
\* that was encapsulated when the ciphertext was made for owner's key, and
\* the KEM's implicit-rejection secret otherwise.
DecapSecret(owner, ct) ==
    IF ct[1] = "ct" /\ ct[2] = owner THEN <<"ss", "kem", owner, ct[3]>>
                                     ELSE <<"ss", "rej", owner, "-">>

\* private_key.exchange(ec.ECDH(), peer_public_key): symmetric in the pair.
Rank(p) == IF p = "A" THEN 1 ELSE IF p = "C" THEN 2 ELSE 3
ECDH(owner, peerPub) ==
    IF Rank(owner) < Rank(peerPub[2]) THEN <<"ss", "ecdh", owner, peerPub[2]>>
                                      ELSE <<"ss", "ecdh", peerPub[2], owner>>

\* serialization.load_pem_public_key: raises on bytes that are no PEM key.
PemLoads(v) == v[1] \in {"ecpub", "pem"}
\* variant: the exchange accepts any key that was loaded
ExchangeRaises_Never(peerPub) == FALSE
\* private_key.exchange(ec.ECDH(), peer_public_key) raises unless the peer's
\* key is an elliptic-curve key on the curve of the private key
ExchangeRaises(peerPub) == peerPub[1] # "ecpub"

SecretLen(ss) == IF ss[2] = "ecdh" THEN ECDH_SECRET_LEN ELSE KEM_SECRET_LEN

\* A symmetric key: <<"key", label of the derivation, secret..., length>>.
KeyLabel(k) == k[2]
KeyLen(k)   == k[6]

\* HKDF(SHA256, length=32, salt=None, info=b"handshake data").derive(secret)
HKDFDerive(ss) == <<"key", HKDF_INFO, ss[2], ss[3], ss[4], HKDF_LENGTH>>

\* secret[:n]: no derivation, the first n bytes of the raw secret
Slice(ss, n) == <<"key", "raw", ss[2], ss[3], ss[4], Min(SecretLen(ss), n)>>

\* the associated data both roles pass to AES-GCM: None
NoAad == "None"
\* AESGCM(key).encrypt(nonce, plaintext, associated_data)
AeadSeal(key, nonce, pt, aad) == <<"aead", key, nonce, pt, aad>>
\* AESGCM(key).decrypt(nonce, ciphertext, associated_data) authenticates
AeadOpens(key, nonce, c, aad) ==
    c[1] = "aead" /\ c[2] = key /\ c[3] = nonce /\ c[5] = aad
\* variant: every ciphertext opens to the same text
AeadPlain_Fixed(c) == "hello"
\* the plaintext decrypt returns
AeadPlain(c) == c[4]

\* ----------------------------------------------------------------- framing
HDR_LEN == 4
Hdr(n) == <<"len", n>>
IsHdr(tok) == tok[1] = "len"
Nonce(n) == <<"nonce", n>>
\* len(payload): an empty payload has no bytes, a nonce has NONCE_LEN, and
\* every other payload some positive size (1 stands for it)
PayloadLen(v) == IF v = Empty THEN 0 ELSE IF v[1] = "nonce" THEN NONCE_LEN ELSE 1
\* variant: the length is written, the payload is not
Frame_HeaderOnly(v) == <<Hdr(PayloadLen(v))>>
\* length.to_bytes(4, "big") followed by the payload: two sendall calls
Frame(v) == IF v = Empty THEN <<Hdr(0)>> ELSE <<Hdr(PayloadLen(v)), v>>

\* variant: the ciphertext field is written before the nonce field
CiphertextFrame_NonceLast(nonce, ct) == Frame(ct) \o Frame(nonce)
\* send_message's four sendall calls: nonce length, nonce, ciphertext
\* length, ciphertext                         (client_pqc.py lines 180-187)
CiphertextFrame(nonce, ct) == Frame(nonce) \o Frame(ct)

\* _receive_exact(sock, num_bytes) on a stream whose unread tokens are `wire`
\* and whose peer end is closed iff `eof`.  A token is what one completed
\* recv loop returns: the 4 bytes of a header, or the bytes of a payload.
\*   "ok"     the next num_bytes bytes (b"" when num_bytes = 0),
\*   "closed" recv returned b"" before they arrived (the method returns None),
\*   "block"  recv is still waiting.
ReceiveExact(wire, eof, num_bytes) ==
    IF num_bytes = 0 THEN [st |-> "ok", data |-> <<>>, rest |-> wire]
    ELSE IF wire # <<>>
         THEN [st |-> "ok", data |-> <<Head(wire)>>, rest |-> Tail(wire)]
         ELSE IF eof THEN [st |-> "closed", data |-> <<>>, rest |-> <<>>]
                     ELSE [st |-> "block", data |-> <<>>, rest |-> wire]

\* variant: a field of length 0 is returned like any other
ReceiveField_EmptyOk(wire, eof) ==
    LET h == ReceiveExact(wire, eof, HDR_LEN) IN
    IF h.st = "block" THEN [st |-> "block", v |-> Empty, rest |-> wire]
    ELSE IF h.st = "closed" THEN [st |-> "none", v |-> Empty, rest |-> <<>>]
    ELSE LET n == h.data[1][2]
             p == ReceiveExact(h.rest, eof, n) IN
         IF p.st = "block" THEN [st |-> "block", v |-> Empty, rest |-> wire]
         ELSE IF p.st = "closed" THEN [st |-> "none", v |-> Empty, rest |-> <<>>]
         ELSE IF p.data = <<>> THEN [st |-> "ok", v |-> Empty, rest |-> p.rest]
         ELSE [st |-> "ok", v |-> p.data[1], rest |-> p.rest]

\* One length-prefixed field: _receive_exact(4), int.from_bytes,
\* _receive_exact(length), each followed by `if not x: return None`.
\*   "ok" with the payload, "none" (closed stream or empty payload), "block".
ReceiveField(wire, eof) ==
    LET h == ReceiveExact(wire, eof, HDR_LEN) IN
    IF h.st = "block" THEN [st |-> "block", v |-> Empty, rest |-> wire]
    ELSE IF h.st = "closed" THEN [st |-> "none", v |-> Empty, rest |-> <<>>]
    ELSE LET n == h.data[1][2]
             p == ReceiveExact(h.rest, eof, n) IN
         IF p.st = "block" THEN [st |-> "block", v |-> Empty, rest |-> wire]
         ELSE IF p.st = "closed" THEN [st |-> "none", v |-> Empty, rest |-> <<>>]
         ELSE IF p.data = <<>> THEN [st |-> "none", v |-> Empty, rest |-> p.rest]
         ELSE [st |-> "ok", v |-> p.data[1], rest |-> p.rest]

\* ------------------------------------------------------------------- state
VARIABLES
    mode,                   \* "pqc" | "classical": which pair of classes runs
    \* server object
    running,                \* self.running
    server_socket,          \* "None" | "listening" | "closed"
    last_received_message,  \* self.last_received_message
    event,                  \* message_received_event is set
    spc,                    \* position of the thread running start()
    handler_socket,         \* _handle_client's client_socket: "None" | "open"
    srv,                    \* locals of the handler: peer keys, aes_key, message
    \* client object
    client_socket,          \* "None" | "open"
    aesgcm,                 \* None or the key of the AESGCM object
    connected,              \* self.connected
    cpc,                    \* position of the caller inside connect()
    cli,                    \* locals of the handshake
    \* network: the current connection
    c2s, s2c,               \* unread tokens, client to server and back
    c2sEOF, s2cEOF,         \* the sending end of that direction is closed
    pending,                \* the connection is established, not yet accepted
    nconn,                  \* connections opened so far
    \* the caller's thread
    stpc,                   \* position inside stop(): "idle" | "close"
    ret,                    \* what connect() and send_message() last returned
    \* history of the current connection
    hist,
    \* one read of a length-prefixed field, byte by byte (_receive_exact)
    rx,
    \* the benchmark harness: run_all_benchmarks and its measure functions
    bench

vars == <<mode, running, server_socket, last_received_message, event, spc,
          handler_socket, srv, client_socket, aesgcm, connected, cpc, cli,
          c2s, s2c, c2sEOF, s2cEOF, pending, nconn, stpc, ret, hist,
          rx, bench>>

serverVars == <<running, server_socket, last_received_message, event, spc,
                handler_socket, srv>>
clientVars == <<client_socket, aesgcm, connected, cpc, cli>>
netVars    == <<c2s, s2c, c2sEOF, s2cEOF, pending, nconn>>

\* plaintexts: what callers send (two texts and the sentinel, in a case
\* other than the one the code compares with), what they send under an
\* active attacker, and bytes that are no valid UTF-8
Messages == {"hello", "world", "EXIT"}
AttackedMessages == {"hello", "exit"}
BadUtf8  == "<ff>"
Nonces   == {"n1", "n2"}        \* values os.urandom(12) may return
\* message.lower()
Lower(m) == IF m = "EXIT" THEN "exit" ELSE m
\* plaintext.decode("utf-8") raises on BadUtf8
Utf8Decodes(pt) == pt # BadUtf8

Pending == <<"pending">>
SrvLocals0 == [sigpk |-> None, kempk |-> None, aes_key |-> None, message |-> None]
CliLocals0 == [sigpk |-> None, ct |-> None]

\* What the history records of the current connection:
\*   wire        the fields the two roles wrote, in order
\*   tampered    the network replaced a field; cut: it cut the connection;
\*   reset       the listener was closed before the connection was accepted
\*   skey, ckey  the key each role's handshake returned (Pending before)
\*   sverify, cverify  what each role's signature check decided
\*   sct         the ciphertext the server signed and sent
\*   rsigpk, rct, rsig  the server fields as they reached the client
\*   decap       the client decapsulated
\*   sent        the messages send_message returned True for
\*   delivered   the messages stored in last_received_message
\*   recvfail    -1, or the number delivered when a frame failed to arrive
\*   sentinel    the read loop ended on the sentinel
\*   cleared     -1, or the number sent when the observer last cleared the
\*               event; quiet: every message sent before that clear had
\*               been stored and signalled
\*   prevfail    the server-side handshake of the connection before this
\*               one returned no key
ConnHist0 == [wire |-> <<>>, tampered |-> FALSE, cut |-> FALSE, reset |-> FALSE,
              skey |-> Pending, ckey |-> Pending,
              sverify |-> "none", cverify |-> "none",
              sct |-> Pending, rsigpk |-> Pending, rct |-> Pending,
              rsig |-> Pending, decap |-> FALSE,
              sent |-> <<>>, delivered |-> <<>>,
              recvfail |-> -1, sentinel |-> FALSE,
              cleared |-> -1, quiet |-> FALSE, prevfail |-> FALSE]

\* the two parts of the state that the channel's actions leave alone
RxIdle == [pc |-> "idle"]
BenchIdle == [pc |-> "idle"]

InitChannel ==
    /\ mode \in {"pqc", "classical"}
    /\ running = FALSE
    /\ server_socket = "None"
    /\ last_received_message = None
    /\ event = FALSE
    /\ spc = "idle"
    /\ handler_socket = "None"
    /\ srv = SrvLocals0
    /\ client_socket = "None"
    /\ aesgcm = None
    /\ connected = FALSE
    /\ cpc = "idle"
    /\ cli = CliLocals0
    /\ c2s = <<>>
    /\ s2c = <<>>
    /\ c2sEOF = FALSE
    /\ s2cEOF = FALSE
    /\ pending = FALSE
    /\ nconn = 0
    /\ stpc = "idle"
    /\ ret = [connect |-> "none", send |-> "none"]
    /\ hist = ConnHist0

Init == InitChannel /\ rx = RxIdle /\ bench = BenchIdle

\* ------------------------------------------------------------ connections
\* Neither end has closed and the network has not cut the connection.
ConnUp == ~c2sEOF /\ ~s2cEOF

\* variant: the handler returns with no `with client_socket:` around it
HandlerReturn_SocketLeft ==
    /\ handler_socket' = handler_socket
    /\ s2cEOF' = s2cEOF
    /\ c2s' = <<>>
    /\ srv' = SrvLocals0
    /\ spc' = "accept"

\* Leaving `with client_socket:` in _handle_client: the connection socket is
\* closed, unread input is discarded, the thread is back in start()'s loop.
HandlerReturn ==
    /\ handler_socket' = "None"
    /\ s2cEOF' = TRUE
    /\ c2s' = <<>>
    /\ srv' = SrvLocals0
    /\ spc' = "accept"

\* ---------------------------------------------------- server: start / stop
\* The statements below that the benchmark harness executes as well are
\* written with the harness's next state b as a parameter; for every other
\* caller the harness stays as it is.
\* threading.Thread(target=server.start).start()
ThreadStartWith(b) ==
    /\ spc = "idle"
    /\ spc' = "start"
    /\ bench' = b
    /\ UNCHANGED <<mode, rx, running, server_socket, last_received_message, event,
                   handler_socket, srv, clientVars, netVars, stpc, ret, hist>>
ThreadStart == ThreadStartWith(bench)

\* start(): self.running = True
StartSetRunning ==
    /\ spc = "start"
    /\ running' = TRUE
    /\ spc' = "bind"
    /\ UNCHANGED <<mode, rx, bench, server_socket, last_received_message, event,
                   handler_socket, srv, clientVars, netVars, stpc, ret, hist>>

\* start(): socket(), setsockopt, bind, listen(1), settimeout(1.0)
StartListen ==
    /\ spc = "bind"
    /\ server_socket' = "listening"
    /\ spc' = "accept"
    /\ UNCHANGED <<mode, rx, bench, running, last_received_message, event,
                   handler_socket, srv, clientVars, netVars, stpc, ret, hist>>

\* start(): `while self.running` is true and accept() returns a connection.
\* (accept() timing out, or raising on a closed socket, goes round the loop
\* and changes nothing.)
Accept ==
    /\ spc = "accept"
    /\ running
    /\ server_socket = "listening"
    /\ pending
    /\ pending' = FALSE
    /\ handler_socket' = "open"
    /\ srv' = SrvLocals0
    /\ spc' = IF mode = "pqc" THEN "hs_send_sigpk" ELSE "cl_send_pub"
    /\ UNCHANGED <<mode, rx, bench, running, server_socket, last_received_message, event,
                   clientVars, c2s, s2c, c2sEOF, s2cEOF, nconn, stpc, ret, hist>>

\* variant: accept() with no timeout returns only with a connection
AcceptLoopExit_Blocking ==
    /\ spc = "accept"
    /\ ~running
    /\ pending
    /\ spc' = "cleanup"
    /\ UNCHANGED <<mode, rx, bench, running, server_socket, last_received_message, event,
                   handler_socket, srv, clientVars, netVars, stpc, ret, hist>>

\* start(): `while self.running` is false: the loop ends
AcceptLoopExit ==
    /\ spc = "accept"
    /\ ~running
    /\ spc' = "cleanup"
    /\ UNCHANGED <<mode, rx, bench, running, server_socket, last_received_message, event,
                   handler_socket, srv, clientVars, netVars, stpc, ret, hist>>

\* self.server_socket.close(), guarded by `if self.server_socket:`.
\* Closing the listener resets a connection nobody accepted.
CloseListener ==
    /\ server_socket' = IF server_socket = "None" THEN "None" ELSE "closed"
    /\ pending' = IF server_socket = "None" THEN pending ELSE FALSE
    /\ IF server_socket # "None" /\ pending
       THEN /\ s2cEOF' = TRUE
            /\ c2s' = <<>>
            /\ hist' = [hist EXCEPT !.reset = TRUE]
       ELSE UNCHANGED <<s2cEOF, c2s, hist>>

\* _cleanup(), from start()'s finally
Cleanup ==
    /\ spc = "cleanup"
    /\ CloseListener
    /\ spc' = "done"
    /\ UNCHANGED <<mode, rx, bench, running, last_received_message, event, handler_socket,
                   srv, clientVars, s2c, c2sEOF, nconn, stpc, ret>>

\* variant: the flag is flipped, not cleared
StopSetFlag_Toggles ==
    /\ stpc = "idle"
    /\ running' = ~running
    /\ stpc' = "close"
    /\ UNCHANGED <<mode, rx, bench, server_socket, last_received_message, event, spc,
                   handler_socket, srv, clientVars, netVars, ret, hist>>

\* stop(): self.running = False
StopSetFlagWith(b) ==
    /\ stpc = "idle"
    /\ running' = FALSE
    /\ stpc' = "close"
    /\ bench' = b
    /\ UNCHANGED <<mode, rx, server_socket, last_received_message, event, spc,
                   handler_socket, srv, clientVars, netVars, ret, hist>>
StopSetFlag == StopSetFlagWith(bench)

\* variant: stop() also closes the socket of the accepted connection
StopClose_ClosesConnection ==
    /\ stpc = "close"
    /\ server_socket' = IF server_socket = "None" THEN "None" ELSE "closed"
    /\ pending' = FALSE
    /\ handler_socket' = "None"
    /\ s2cEOF' = TRUE
    /\ c2s' = <<>>
    /\ stpc' = "idle"
    /\ UNCHANGED <<mode, rx, bench, running, last_received_message, event, spc, srv,
                   clientVars, s2c, c2sEOF, nconn, ret, hist>>

\* stop(): if self.server_socket: self.server_socket.close()
StopCloseWith(b) ==
    /\ stpc = "close"
    /\ CloseListener
    /\ stpc' = "idle"
    /\ bench' = b
    /\ UNCHANGED <<mode, rx, running, last_received_message, event, spc,
                   handler_socket, srv, clientVars, s2c, c2sEOF, nconn, ret>>
StopClose == StopCloseWith(bench)

\* ------------------------------------------- server: post-quantum handshake
\* variant: no `if not aes_key: return`, the handler goes on to its loop
ServerHsFail_Serves ==
    /\ UNCHANGED <<handler_socket, s2cEOF, c2s, srv>>
    /\ spc' = "serve_loop"
    /\ hist' = [hist EXCEPT !.skey = None]

\* _perform_pqc_key_exchange returned None, `if not aes_key: return`
ServerHsFail ==
    /\ HandlerReturn
    /\ hist' = [hist EXCEPT !.skey = None]

\* sendall on the connection socket: delivered while the connection is up;
\* once the peer is gone the bytes are lost.
ServerSendAll(frames) ==
    s2c' = IF ConnUp THEN s2c \o frames ELSE s2c

\* generate the signing keypair, send its public key (lines 108-114)
ServerSendSigPk ==
    /\ spc = "hs_send_sigpk"
    /\ \/ /\ ServerSendAll(Frame(SigPk("S")))
          /\ spc' = "hs_recv_sigpk"
          /\ hist' = [hist EXCEPT !.wire = Append(@, "sigpk_s")]
          /\ UNCHANGED <<handler_socket, srv, c2s, s2cEOF>>
       \/ \* sendall raises on a connection the peer has left
          /\ ~ConnUp
          /\ ServerHsFail
          /\ UNCHANGED s2c
    /\ UNCHANGED <<mode, rx, bench, running, server_socket, last_received_message, event,
                   clientVars, c2sEOF, pending, nconn, stpc, ret>>

\* receive the client's signing public key (lines 117-128)
ServerRecvSigPk ==
    /\ spc = "hs_recv_sigpk"
    /\ LET r == ReceiveField(c2s, c2sEOF) IN
       /\ r.st # "block"
       /\ IF r.st = "ok"
          THEN /\ c2s' = r.rest
               /\ srv' = [srv EXCEPT !.sigpk = r.v]
               /\ spc' = "hs_recv_kempk"
               /\ UNCHANGED <<handler_socket, s2cEOF, hist>>
          ELSE ServerHsFail
    /\ UNCHANGED <<mode, rx, bench, running, server_socket, last_received_message, event,
                   clientVars, s2c, c2sEOF, pending, nconn, stpc, ret>>

\* receive the client's KEM public key (lines 133-144)
ServerRecvKemPk ==
    /\ spc = "hs_recv_kempk"
    /\ LET r == ReceiveField(c2s, c2sEOF) IN
       /\ r.st # "block"
       /\ IF r.st = "ok"
          THEN /\ c2s' = r.rest
               /\ srv' = [srv EXCEPT !.kempk = r.v]
               /\ spc' = "hs_recv_sig"
               /\ UNCHANGED <<handler_socket, s2cEOF, hist>>
          ELSE ServerHsFail
    /\ UNCHANGED <<mode, rx, bench, running, server_socket, last_received_message, event,
                   clientVars, s2c, c2sEOF, pending, nconn, stpc, ret>>

\* variant: the result of the check is ignored
ServerSigCheck_Skipped(kempk, sig, sigpk) == TRUE
\* is_valid = sig.verify(client_kem_public_key, kem_signature,
\*                       client_sig_public_key)        (lines 163-168)
ServerSigCheck(kempk, sig, sigpk) == SigVerify(kempk, sig, sigpk)

\* variant: a 16-byte slice
ServerDeriveKey_Short(ss) == Slice(ss, 16)
\* aes_key = shared_secret_server[:32]                 (line 199)
ServerDeriveKey(ss) == Slice(ss, AES_KEY_LEN)

\* receive the signature over the KEM key, verify it, encapsulate, sign the
\* ciphertext, send ciphertext and signature, return the key (lines 147-202)
ServerRecvKemSig ==
    /\ spc = "hs_recv_sig"
    /\ LET r == ReceiveField(c2s, c2sEOF)
           ct == EncapCt(srv.kempk, "S")
           ss == EncapSecret(srv.kempk, "S") IN
       /\ r.st # "block"
       /\ \/ /\ r.st = "none"
             /\ ServerHsFail
             /\ UNCHANGED s2c
          \/ /\ r.st = "ok"
             /\ ~ServerSigCheck(srv.kempk, r.v, srv.sigpk)
             /\ HandlerReturn
             /\ hist' = [hist EXCEPT !.skey = None, !.sverify = "failed"]
             /\ UNCHANGED s2c
          \/ /\ r.st = "ok"
             /\ ServerSigCheck(srv.kempk, r.v, srv.sigpk)
             /\ \/ /\ ServerSendAll(Frame(ct) \o Frame(Sign("S", ct)))
                   /\ c2s' = r.rest
                   /\ srv' = [srv EXCEPT !.aes_key = ServerDeriveKey(ss)]
                   /\ spc' = "serve_loop"
                   /\ hist' = [hist EXCEPT
                         !.wire = @ \o <<"ct", "sig_ct">>,
                         !.sct = ct,
                         !.skey = ServerDeriveKey(ss),
                         !.sverify = IF SigVerify(srv.kempk, r.v, srv.sigpk)
                                     THEN "ok" ELSE "unverified"]
                   /\ UNCHANGED <<handler_socket, s2cEOF>>
                \/ \* sendall raises on a connection the peer has left
                   /\ ~ConnUp
                   /\ ServerHsFail
                   /\ UNCHANGED s2c
    /\ UNCHANGED <<mode, rx, bench, running, server_socket, last_received_message, event,
                   clientVars, c2sEOF, pending, nconn, stpc, ret>>

\* --------------------------------------------- server: classical handshake
\* ClassicalServer, server role of the classical handshake: generate the
\* ECDH keypair, send the serialized public key.
ClServerSendPub ==
    /\ spc = "cl_send_pub"
    /\ \/ /\ ServerSendAll(Frame(EcPub("S")))
          /\ spc' = "cl_recv_pub"
          /\ hist' = [hist EXCEPT !.wire = Append(@, "pub_s")]
          /\ UNCHANGED <<handler_socket, srv, c2s, s2cEOF>>
       \/ /\ ~ConnUp
          /\ ServerHsFail
          /\ UNCHANGED s2c
    /\ UNCHANGED <<mode, rx, bench, running, server_socket, last_received_message, event,
                   clientVars, c2sEOF, pending, nconn, stpc, ret>>

\* server role: ECDH with the peer's key, then the key derivation
ClServerDeriveKey(peerPub) == HKDFDerive(ECDH("S", peerPub))

\* server role: receive the peer's serialized public key, deserialize it,
\* compute the shared secret, derive the 32-byte key
ClServerRecvPub ==
    /\ spc = "cl_recv_pub"
    /\ LET r == ReceiveField(c2s, c2sEOF) IN
       /\ r.st # "block"
       /\ IF r.st = "ok" /\ PemLoads(r.v) /\ ~ExchangeRaises(r.v)
          THEN /\ c2s' = r.rest
               /\ srv' = [srv EXCEPT !.aes_key = ClServerDeriveKey(r.v)]
               /\ spc' = "serve_loop"
               /\ hist' = [hist EXCEPT !.skey = ClServerDeriveKey(r.v)]
               /\ UNCHANGED <<handler_socket, s2cEOF>>
          ELSE ServerHsFail
    /\ UNCHANGED <<mode, rx, bench, running, server_socket, last_received_message, event,
                   clientVars, s2c, c2sEOF, pending, nconn, stpc, ret>>

\* ------------------------------------------------- server: message loop
\* variant: decryption without authentication
ServerDecrypts_NoAuth(key, nonce, c) == c[1] = "aead"
\* plaintext = aesgcm.decrypt(nonce, ciphertext, None): raises InvalidTag
\* unless the ciphertext was sealed under this key and nonce (line 239)
ServerDecrypts(key, nonce, c) == AeadOpens(key, nonce, c, NoAad)

\* _receive_encrypted_message: nonce field, ciphertext field, decrypt, decode.
\*   "ok" with the text, "none" (returns None), "block".
ReceiveEncryptedMessage(wire, eof, key) ==
    LET f1 == ReceiveField(wire, eof) IN
    IF f1.st # "ok" THEN [st |-> f1.st, msg |-> None, rest |-> f1.rest]
    ELSE LET f2 == ReceiveField(f1.rest, eof) IN
         IF f2.st = "block" THEN [st |-> "block", msg |-> None, rest |-> wire]
         ELSE IF f2.st = "none" THEN [st |-> "none", msg |-> None, rest |-> f2.rest]
         ELSE IF ~ServerDecrypts(key, f1.v, f2.v)
              THEN [st |-> "none", msg |-> None, rest |-> f2.rest]    \* InvalidTag
         ELSE IF ~Utf8Decodes(AeadPlain(f2.v))
              THEN [st |-> "none", msg |-> None, rest |-> f2.rest]    \* UnicodeDecodeError
         ELSE [st |-> "ok", msg |-> AeadPlain(f2.v), rest |-> f2.rest]

\* variant: `while True:`, the flag is not read
ServeLoopCheck_Unconditional ==
    /\ spc = "serve_loop"
    /\ spc' = "serve_recv"
    /\ UNCHANGED <<handler_socket, srv, c2s, s2cEOF>>
    /\ UNCHANGED <<mode, rx, bench, running, server_socket, last_received_message, event,
                   clientVars, s2c, c2sEOF, pending, nconn, stpc, ret, hist>>

\* _handle_client: `while self.running:` (line 71)
ServeLoopCheck ==
    /\ spc = "serve_loop"
    /\ IF running
       THEN /\ spc' = "serve_recv"
            /\ UNCHANGED <<handler_socket, srv, c2s, s2cEOF>>
       ELSE HandlerReturn
    /\ UNCHANGED <<mode, rx, bench, running, server_socket, last_received_message, event,
                   clientVars, s2c, c2sEOF, pending, nconn, stpc, ret, hist>>

\* message = self._receive_encrypted_message(...); if message is None: break
ServerReceive ==
    /\ spc = "serve_recv"
    /\ LET r == ReceiveEncryptedMessage(c2s, c2sEOF, srv.aes_key) IN
       /\ r.st # "block"
       /\ IF r.st = "ok"
          THEN /\ c2s' = r.rest
               /\ srv' = [srv EXCEPT !.message = r.msg]
               /\ spc' = "serve_store"
               /\ UNCHANGED <<handler_socket, s2cEOF, hist>>
          ELSE /\ HandlerReturn
               /\ hist' = [hist EXCEPT !.recvfail = Len(hist.delivered)]
    /\ UNCHANGED <<mode, rx, bench, running, server_socket, last_received_message, event,
                   clientVars, s2c, c2sEOF, pending, nconn, stpc, ret>>

\* variant: the event is signalled for a message that was never stored
ServerStore_Skipped ==
    /\ spc = "serve_store"
    /\ spc' = "serve_event"
    /\ hist' = [hist EXCEPT !.delivered = Append(@, srv.message)]
    /\ UNCHANGED <<mode, rx, bench, running, server_socket, last_received_message, event,
                   handler_socket, srv, clientVars, netVars, stpc, ret>>

\* with self._lock: self.last_received_message = message (lines 80-81)
ServerStore ==
    /\ spc = "serve_store"
    /\ last_received_message' = srv.message
    /\ spc' = "serve_event"
    /\ hist' = [hist EXCEPT !.delivered = Append(@, srv.message)]
    /\ UNCHANGED <<mode, rx, bench, running, server_socket, event, handler_socket, srv,
                   clientVars, netVars, stpc, ret>>

\* variant: the comparison without lower()
IsSentinel_CaseSensitive(m) == m = "exit"
\* if message.lower() == "exit": break                 (line 87)
IsSentinel(m) == Lower(m) = "exit"

\* self.message_received_event.set(), then the sentinel test (lines 84-89)
ServerSignal ==
    /\ spc = "serve_event"
    /\ event' = TRUE
    /\ IF IsSentinel(srv.message)
       THEN /\ HandlerReturn
            /\ hist' = [hist EXCEPT !.sentinel = TRUE]
       ELSE /\ spc' = "serve_loop"
            /\ UNCHANGED <<handler_socket, srv, c2s, s2cEOF, hist>>
    /\ UNCHANGED <<mode, rx, bench, running, server_socket, last_received_message,
                   clientVars, s2c, c2sEOF, pending, nconn, stpc, ret>>

\* the test's message_event.clear()
EventClear ==
    /\ event
    /\ event' = FALSE
    /\ UNCHANGED <<mode, rx, bench, running, server_socket, last_received_message, spc,
                   handler_socket, srv, clientVars, netVars, stpc, ret, hist>>

\* the multi-message test's loop: message_event.clear() before each send,
\* by a caller that reads last_received_message when the event is set again
ObserverClear ==
    /\ connected
    /\ cpc = "idle"
    /\ event' = FALSE
    /\ hist' = [hist EXCEPT !.cleared = Len(hist.sent),
                            !.quiet = /\ hist.delivered = hist.sent
                                      /\ spc \notin {"serve_store", "serve_event"}]
    /\ UNCHANGED <<mode, rx, bench, running, server_socket, last_received_message, spc,
                   handler_socket, srv, clientVars, netVars, stpc, ret>>

\* ------------------------------------------------------------------ client
\* variant: the socket is neither closed nor cleared
DisconnectSocket_Kept(sock) == sock
\* disconnect(): self.client_socket.close(), then in the finally
\* self.client_socket = None and self.aesgcm = None    (lines 214-221)
DisconnectSocket(sock) == "None"
\* variant: the AESGCM object is kept
DisconnectCipher_Kept(key) == key
\* disconnect(): self.aesgcm = None                    (line 221)
DisconnectCipher(key) == None

\* disconnect(): connected = False, close the socket, clear socket and cipher
Disconnected ==
    /\ connected' = FALSE
    /\ client_socket' = DisconnectSocket(client_socket)
    /\ aesgcm' = DisconnectCipher(aesgcm)
    /\ IF client_socket # "None"
       THEN /\ c2sEOF' = TRUE
            /\ s2c' = <<>>
       ELSE UNCHANGED <<c2sEOF, s2c>>

\* variant: connect() returns False and leaves its socket open
ConnectFails_SocketLeft ==
    /\ UNCHANGED <<connected, client_socket, aesgcm, c2sEOF, s2c>>
    /\ cpc' = "idle"
    /\ cli' = CliLocals0
    /\ ret' = [ret EXCEPT !.connect = "False"]

\* connect(): the handshake returned None or something raised:
\* self.disconnect(); return False                     (lines 35-37, 45-48)
ConnectFails ==
    /\ Disconnected
    /\ cpc' = "idle"
    /\ cli' = CliLocals0
    /\ ret' = [ret EXCEPT !.connect = "False"]

\* connect(): self.aesgcm = AESGCM(aes_key); self.connected = True;
\* return True                                         (lines 40-43)
ConnectSucceeds(key) ==
    /\ aesgcm' = key
    /\ connected' = TRUE
    /\ cpc' = "idle"
    /\ cli' = CliLocals0
    /\ ret' = [ret EXCEPT !.connect = "True"]
    /\ UNCHANGED <<client_socket, c2sEOF>>

\* connect(): `if not aes_key:` is false               (line 35)
KeyUsable(key) == key # None

\* sendall on the client socket: delivered while the connection is up;
\* once the peer is gone the bytes are lost.
ClientSendAll(frames) ==
    c2s' = IF ConnUp THEN c2s \o frames ELSE c2s

\* connect(): socket(), connect((host, port))          (lines 27-31)
ConnectWith(limit, b) ==
    /\ cpc = "idle"
    /\ client_socket = "None"
    /\ handler_socket = "None"
    /\ ~pending
    /\ nconn < limit
    /\ \/ /\ server_socket = "listening"
          /\ nconn' = nconn + 1
          /\ client_socket' = "open"
          /\ pending' = TRUE
          /\ c2s' = <<>>
          /\ s2c' = <<>>
          /\ c2sEOF' = FALSE
          /\ s2cEOF' = FALSE
          /\ hist' = [ConnHist0 EXCEPT !.prevfail = (hist.skey = None)]
          /\ cpc' = IF mode = "pqc" THEN "hs_recv_sigpk" ELSE "cl_recv_pub"
          /\ cli' = CliLocals0
          /\ ret' = [connect |-> "none", send |-> "none"]
          /\ UNCHANGED <<aesgcm, connected>>
       \/ \* nobody listens: ConnectionRefusedError
          /\ server_socket # "listening"
          /\ ConnectFails
          /\ UNCHANGED <<nconn, pending, c2s, s2cEOF, hist>>
    /\ bench' = b
    /\ UNCHANGED <<mode, rx, serverVars, stpc>>
ConnectUpTo(limit) == ConnectWith(limit, bench)

\* receive the server's signing public key             (lines 60-72)
ClientRecvSigPk ==
    /\ cpc = "hs_recv_sigpk"
    /\ LET r == ReceiveField(s2c, s2cEOF) IN
       /\ r.st # "block"
       /\ IF r.st = "ok"
          THEN /\ s2c' = r.rest
               /\ cli' = [cli EXCEPT !.sigpk = r.v]
               /\ cpc' = "hs_send_keys"
               /\ hist' = [hist EXCEPT !.rsigpk = r.v]
               /\ UNCHANGED <<client_socket, aesgcm, connected, c2sEOF, ret>>
          ELSE /\ ConnectFails
               /\ hist' = [hist EXCEPT !.ckey = None]
    /\ UNCHANGED <<mode, rx, bench, serverVars, c2s, s2cEOF, pending, nconn, stpc>>

\* send the signing public key, generate the KEM keypair, sign the KEM public
\* key, send the KEM public key and the signature      (lines 77-106)
ClientSendKeys ==
    /\ cpc = "hs_send_keys"
    /\ \/ /\ ClientSendAll(Frame(SigPk("C")) \o Frame(KemPk("C"))
                            \o Frame(Sign("C", KemPk("C"))))
          /\ cpc' = "hs_recv_ct"
          /\ hist' = [hist EXCEPT
                !.wire = @ \o <<"sigpk_c", "kempk_c", "sig_kempk">>]
          /\ UNCHANGED <<client_socket, aesgcm, connected, cli, c2sEOF, s2c, ret>>
       \/ \* sendall raises on a connection the peer has left
          /\ ~ConnUp
          /\ ConnectFails
          /\ hist' = [hist EXCEPT !.ckey = None]
          /\ UNCHANGED c2s
    /\ UNCHANGED <<mode, rx, bench, serverVars, s2cEOF, pending, nconn, stpc>>

\* receive the ciphertext                              (lines 111-122)
ClientRecvCt ==
    /\ cpc = "hs_recv_ct"
    /\ LET r == ReceiveField(s2c, s2cEOF) IN
       /\ r.st # "block"
       /\ IF r.st = "ok"
          THEN /\ s2c' = r.rest
               /\ cli' = [cli EXCEPT !.ct = r.v]
               /\ cpc' = "hs_recv_sig"
               /\ hist' = [hist EXCEPT !.rct = r.v]
               /\ UNCHANGED <<client_socket, aesgcm, connected, c2sEOF, ret>>
          ELSE /\ ConnectFails
               /\ hist' = [hist EXCEPT !.ckey = None,
                              !.rct = IF r.rest # <<>> \/ ~s2cEOF
                                      THEN Empty ELSE @]
    /\ UNCHANGED <<mode, rx, bench, serverVars, c2s, s2cEOF, pending, nconn, stpc>>

\* variant: the result of the check is ignored
ClientSigCheck_Skipped(ct, sig, sigpk) == TRUE
\* is_valid = sig.verify(ciphertext, ciphertext_signature,
\*                       server_sig_public_key)        (lines 141-146)
ClientSigCheck(ct, sig, sigpk) == SigVerify(ct, sig, sigpk)

\* variant: a 16-byte slice
ClientDeriveKey_Short(ct) == Slice(DecapSecret("C", ct), 16)
\* shared_secret_client = kem.decap_secret(ciphertext);
\* aes_key = shared_secret_client[:32]                 (lines 151-154)
ClientDeriveKey(ct) == Slice(DecapSecret("C", ct), AES_KEY_LEN)

\* receive the signature over the ciphertext, verify it, decapsulate, return
\* the key; connect() then installs it                 (lines 125-157, 35-43)
ClientRecvCtSig ==
    /\ cpc = "hs_recv_sig"
    /\ LET r == ReceiveField(s2c, s2cEOF) IN
       /\ r.st # "block"
       /\ IF r.st = "none"
          THEN /\ ConnectFails
               /\ hist' = [hist EXCEPT !.ckey = None,
                              !.rsig = IF r.rest # <<>> \/ ~s2cEOF
                                       THEN Empty ELSE @]
          ELSE IF ~ClientSigCheck(cli.ct, r.v, cli.sigpk)
          THEN /\ ConnectFails
               /\ hist' = [hist EXCEPT !.ckey = None, !.rsig = r.v,
                                       !.cverify = "failed"]
          ELSE LET key == ClientDeriveKey(cli.ct) IN
               /\ hist' = [hist EXCEPT !.ckey = key, !.rsig = r.v,
                                       !.decap = TRUE, !.cverify = "ok"]
               /\ IF KeyUsable(key)
                  THEN /\ ConnectSucceeds(key)
                       /\ s2c' = r.rest
                  ELSE ConnectFails
    /\ UNCHANGED <<mode, rx, bench, serverVars, c2s, s2cEOF, pending, nconn, stpc>>

\* ------------------------------------------------ client: classical handshake
\* variant: the raw secret, sliced, without HKDF
ClClientDeriveKey_NoKdf(serverPub) == Slice(ECDH("C", serverPub), AES_KEY_LEN)
\* shared_secret = client_private_key.exchange(ec.ECDH(), server_public_key);
\* derived_key = HKDF(..., length=32, info=b"handshake data").derive(...)
ClClientDeriveKey(serverPub) == HKDFDerive(ECDH("C", serverPub))

\* _perform_key_exchange: receive and deserialize the server's public key,
\* generate the keypair, send the public key, compute the shared secret,
\* derive the key; connect() then installs it          (lines 56-104, 35-43)
ClClientRecvPub ==
    /\ cpc = "cl_recv_pub"
    /\ LET r == ReceiveField(s2c, s2cEOF) IN
       /\ r.st # "block"
       /\ IF r.st = "none" \/ ~PemLoads(r.v)
          THEN /\ ConnectFails
               /\ hist' = [hist EXCEPT !.ckey = None]
               /\ UNCHANGED c2s
          ELSE \/ LET key == IF ExchangeRaises(r.v) THEN None
                                 ELSE ClClientDeriveKey(r.v) IN
                  /\ ClientSendAll(Frame(EcPub("C")))
                  /\ hist' = [hist EXCEPT !.wire = Append(@, "pub_c"),
                                          !.ckey = key]
                  /\ IF KeyUsable(key)
                     THEN /\ ConnectSucceeds(key)
                          /\ s2c' = r.rest
                     ELSE ConnectFails
               \/ \* sendall raises on a connection the peer has left
                  /\ ~ConnUp
                  /\ ConnectFails
                  /\ hist' = [hist EXCEPT !.ckey = None]
                  /\ UNCHANGED c2s
    /\ UNCHANGED <<mode, rx, bench, serverVars, s2cEOF, pending, nconn, stpc>>

\* ------------------------------------------------- client: message layer
\* the nonces of the frames still unread in a stream
NoncesOn(wire) == {wire[i] : i \in {j \in 1..Len(wire) : wire[j][1] = "nonce"}}
\* variant: a nonce that is still on the wire is not drawn again
NonceChoices_Unused(wire) == {n \in Nonces : Nonce(n) \notin NoncesOn(wire)}
\* nonce = os.urandom(12): any value, whatever was drawn before (line 174)
NonceChoices(wire) == Nonces

\* send_message(message)                               (lines 163-194)
SendMessageOf(msgs, limit) ==
    /\ cpc = "idle"
    /\ \/ \* `if not self.connected or not self.aesgcm: return False`
          /\ ~connected \/ aesgcm = None
          /\ ret' = [ret EXCEPT !.send = "False"]
          /\ UNCHANGED <<c2s, hist>>
       \/ /\ connected /\ aesgcm # None
          /\ Len(hist.sent) < limit
          /\ \E m \in msgs, n \in NonceChoices(c2s) :
               \/ /\ ClientSendAll(CiphertextFrame(Nonce(n),
                                      AeadSeal(aesgcm, Nonce(n), m, NoAad)))
                  /\ ret' = [ret EXCEPT !.send = "True"]
                  /\ hist' = [hist EXCEPT !.sent = Append(@, m)]
               \/ \* sendall raises on a connection the peer has left
                  /\ ~ConnUp
                  /\ ret' = [ret EXCEPT !.send = "False"]
                  /\ UNCHANGED <<c2s, hist>>
    /\ UNCHANGED <<mode, rx, bench, serverVars, clientVars, s2c, c2sEOF, s2cEOF, pending,
                   nconn, stpc>>

\* disconnect(), called by the owner of the client     (lines 209-221)
DisconnectWith(b) ==
    /\ cpc = "idle"
    /\ Disconnected
    /\ bench' = b
    /\ UNCHANGED <<mode, rx, serverVars, cpc, cli, c2s, s2cEOF, pending, nconn,
                   stpc, ret, hist>>
Disconnect == DisconnectWith(bench)

\* ----------------------------------------------------------------- network
\* What an active attacker can put in the place of a field: its own keys,
\* ciphertexts and signatures, garbage of the same size, or nothing.
AdvSigs(dir) ==
    IF dir = "c2s" THEN {Sign("A", KemPk("A")), Sign("A", KemPk("C"))}
                   ELSE {Sign("A", Ct("C", "A")), Sign("A", Ct("C", "S")),
                         Sign("A", Junk)}

AdvReplace(v, dir) ==
    (CASE v[1] = "sigpk" -> {SigPk("A")}
       [] v[1] = "kempk" -> {KemPk("A")}
       [] v[1] = "ecpub" -> {EcPub("A"), OtherPem}
       [] v[1] = "ct"    -> {Ct("C", "A")}
       [] v[1] = "sig"   -> AdvSigs(dir)
       [] OTHER          -> {})
    \cup {Junk, Empty}

\* The attacker knows a key whose secret it took part in.
AdvKnowsKey(key) == key[1] = "key" /\ (key[4] = "A" \/ key[5] = "A")

\* The handshake field at the head of `wire`, replaced.
Tampered(wire, dir) ==
    IF /\ Len(wire) >= 2
       /\ IsHdr(wire[1])
       /\ wire[2][1] \in {"sigpk", "kempk", "ecpub", "ct", "sig"}
    THEN {Frame(v) \o SubSeq(wire, 3, Len(wire)) :
             v \in AdvReplace(wire[2], dir) \ {wire[2]}}
    ELSE {}

TamperC2S ==
    /\ \E w \in Tampered(c2s, "c2s") : c2s' = w
    /\ hist' = [hist EXCEPT !.tampered = TRUE]
    /\ UNCHANGED <<mode, rx, bench, serverVars, clientVars, s2c, c2sEOF, s2cEOF, pending,
                   nconn, stpc, ret>>

TamperS2C ==
    /\ \E w \in Tampered(s2c, "s2c") : s2c' = w
    /\ hist' = [hist EXCEPT !.tampered = TRUE]
    /\ UNCHANGED <<mode, rx, bench, serverVars, clientVars, c2s, c2sEOF, s2cEOF, pending,
                   nconn, stpc, ret>>

\* The ciphertext frame at the head of the client's stream is replaced: the
\* nonce or the ciphertext changed or emptied, or, when the attacker knows
\* the server's key, a frame of its own sealed under it.
TamperMessage ==
    /\ Len(c2s) >= 4
    /\ c2s[2][1] = "nonce"
    /\ LET n == c2s[2]
           c == c2s[4]
           forged == IF AdvKnowsKey(hist.skey)
                     THEN {<<n, AeadSeal(hist.skey, n, BadUtf8, NoAad)>>}
                     ELSE {}
           repl == ({<<Empty, c>>, <<n, Empty>>, <<n, Junk>>} \cup forged)
                   \ {<<n, c>>} IN
       \E f \in repl :
          c2s' = Frame(f[1]) \o Frame(f[2]) \o SubSeq(c2s, 5, Len(c2s))
    /\ hist' = [hist EXCEPT !.tampered = TRUE]
    /\ UNCHANGED <<mode, rx, bench, serverVars, clientVars, s2c, c2sEOF, s2cEOF, pending,
                   nconn, stpc, ret>>

\* The connection is cut: each side reads what had got through, then
\* end-of-stream.
Cut ==
    /\ client_socket = "open" \/ handler_socket = "open"
    /\ ConnUp
    /\ \E i \in 0..Len(c2s), j \in 0..Len(s2c) :
         /\ c2s' = SubSeq(c2s, 1, i)
         /\ s2c' = SubSeq(s2c, 1, j)
    /\ c2sEOF' = TRUE
    /\ s2cEOF' = TRUE
    /\ hist' = [hist EXCEPT !.cut = TRUE]
    /\ UNCHANGED <<mode, rx, bench, serverVars, clientVars, pending, nconn, stpc, ret>>

\* ------------------------------------------------- _receive_exact, by bytes
\* One read of a length-prefixed field as every handshake step and frame
\* read does it: _receive_exact(sock, 4), int.from_bytes, then
\* _receive_exact(sock, length), each followed by `if not x: return None`.
\* The peer sends rx.total and then closes; the transport delivers it in
\* chunks of any size (rx.later has not arrived, rx.buf has and is unread).
channelVars == <<mode, serverVars, clientVars, netVars, stpc, ret, hist>>

\* s[:k] and s[k:]
Take(s, k) == SubSeq(s, 1, Min(k, Len(s)))
Drop(s, k) == SubSeq(s, Min(k, Len(s)) + 1, Len(s))

\* n.to_bytes(4, byteorder="big") and int.from_bytes(b, byteorder="big")
ToBytes4(n) ==
    <<(n \div 16777216) % 256, (n \div 65536) % 256, (n \div 256) % 256, n % 256>>
FromBytes(b) == ((b[1] * 256 + b[2]) * 256 + b[3]) * 256 + b[4]

\* a payload of n bytes, and the first byte of what the peer sends next
PayloadBytes(n) == [i \in 1..n |-> 10 + i]
NextByte == <<7>>
FieldBytes(n) == ToBytes4(n) \o PayloadBytes(n) \o NextByte

\* variant: every recv asks for num_bytes, whatever has been read
RecvLimit_Whole(num_bytes, data) == num_bytes
\* sock.recv(num_bytes - len(data))                             (line 253)
RecvLimit(num_bytes, data) == num_bytes - Len(data)

InitRecv ==
    /\ InitChannel /\ mode = "pqc" /\ bench = BenchIdle
    /\ \E n \in 0..MaxPayload : \E cut \in 0..Len(FieldBytes(n)) :
          rx = [pc |-> "len", total |-> Take(FieldBytes(n), cut),
                later |-> Take(FieldBytes(n), cut), buf |-> <<>>,
                closed |-> FALSE, num_bytes |-> HDR_LEN, data |-> <<>>,
                hdr |-> <<>>, st |-> "pending"]

\* the transport delivers the next bytes, however many
RxArrive ==
    /\ rx.pc \in {"len", "payload"}
    /\ \E k \in 1..Len(rx.later) :
          rx' = [rx EXCEPT !.buf = @ \o Take(rx.later, k),
                           !.later = Drop(@, k)]
    /\ UNCHANGED <<channelVars, bench>>

\* the peer closes after the last byte it sends
RxPeerClose ==
    /\ rx.pc \in {"len", "payload"}
    /\ rx.later = <<>> /\ ~rx.closed
    /\ rx' = [rx EXCEPT !.closed = TRUE]
    /\ UNCHANGED <<channelVars, bench>>

\* one round of `while len(data) < num_bytes`: recv returns between one
\* byte and what was asked of what has arrived, or b"" once the peer has
\* closed, and then _receive_exact returns None and so does its caller
RxRecv ==
    /\ rx.pc \in {"len", "payload"}
    /\ Len(rx.data) < rx.num_bytes
    /\ IF rx.buf # <<>>
       THEN \E k \in 1..Min(RecvLimit(rx.num_bytes, rx.data), Len(rx.buf)) :
               rx' = [rx EXCEPT !.data = @ \o Take(rx.buf, k),
                                !.buf = Drop(@, k)]
       ELSE /\ rx.closed
            /\ rx' = [rx EXCEPT !.pc = "done", !.st = "none"]
    /\ UNCHANGED <<channelVars, bench>>

\* `return data`, then the caller: the length is decoded and the payload
\* read starts, or the payload is tested with `if not x: return None`
RxReturn ==
    /\ rx.pc \in {"len", "payload"}
    /\ Len(rx.data) >= rx.num_bytes
    /\ IF rx.pc = "len"
       THEN rx' = [rx EXCEPT !.pc = "payload", !.hdr = rx.data,
                             !.num_bytes = FromBytes(rx.data), !.data = <<>>]
       ELSE rx' = [rx EXCEPT !.pc = "done",
                             !.st = IF rx.data = <<>> THEN "none" ELSE "ok"]
    /\ UNCHANGED <<channelVars, bench>>

\* ------------------------------------------------------ benchmark harness
\* run_all_benchmarks and the measure functions it calls, as one sequential
\* caller.  What connect() returns, whether join(timeout=2.0) finds the
\* server thread ended, what the timer reads and what random.uniform draws
\* are inputs.  Times are integers: milliseconds where the code holds a
\* raw timing, and units of 1/Scale ms where it holds an adjusted one.
\*   modes_to_run   the list after line 156, its names lower-cased
\*   modes     the names in modes_to_run ("other": any name that is none
\*             of the three)
\*   progress_callback   a callback was passed; callbacks: its calls, each
\*             <<mode, iteration, total>>
\*   latency_ms, packet_loss_percent   the settings after lines 157-158
\*   mi, iter  the position in the three `if mode in modes_to_run` blocks
\*             and the iteration of the block's loop
\*   part      the measure function that runs: measure_hybrid_handshake
\*             calls the classical one and then the post-quantum one
\*   started   the servers started so far; alive: their threads not ended
\*   connect   what connect() returned in the measure call in progress
\*   exc       the exception in flight
\*   timer     "off", "running" from start_time = perf_counter() on,
\*             "stopped" once elapsed_ms is computed; timed: the client
\*             calls made while it ran; elapsed_ms: what it measured
\*   td        the statements of the finally clause that have run
\*   classical_time   the first result inside measure_hybrid_handshake
\*   log       <<block, iteration, part, value>> of every measure call
\*             that returned
\*   samples   the dict samples: per mode the measurements appended
\*   means     results["handshake_time_ms"]
\*   result    "returned" once run_all_benchmarks has returned its results
\* variant: the blocks in the opposite order
ModeOrder_Reversed == <<"hybrid", "pqc", "classical">>
\* the `if mode in modes_to_run` blocks as they follow one another
ModeOrder == <<"classical", "pqc", "hybrid">>
ModeNames == {"classical", "pqc", "hybrid", "other"}
\* the argument modes_to_run: every choice of the three modes in the order
\* of the blocks, and lists in another order, with a name twice, in
\* capitals, or with a name that is none of the three
ModeLists ==
    {<<>>, <<"classical">>, <<"pqc">>, <<"hybrid">>,
     <<"classical", "pqc">>, <<"classical", "hybrid">>, <<"pqc", "hybrid">>,
     <<"classical", "pqc", "hybrid">>, <<"hybrid", "pqc", "classical">>,
     <<"PQC", "classical", "pqc">>, <<"classical", "hybrid", "other">>,
     <<"other">>}
\* mode.lower()
ModeLower(name) == IF name = "PQC" THEN "pqc" ELSE name
\* `name in modes_to_run` holds for the names in Elems(modes_to_run)
Elems(list) == {list[i] : i \in 1..Len(list)}
\* the first argument of the block's progress_callback call
\*                                                  (lines 166, 173, 180)
CallbackLabel(block) ==
    CASE block = "classical" -> "Classical"
      [] block = "pqc" -> "PQC"
      [] block = "hybrid" -> "Hybrid"
Teardown0 == [disconnect |-> FALSE, stop |-> FALSE, join |-> FALSE]
Max(a, b) == IF a > b THEN a ELSE b

\* the arguments latency_ms and packet_loss_percent of run_all_benchmarks
Settings == {<<0, 0>>, <<30, 0>>, <<30, 2>>, <<-5, -1>>}
\* (time.perf_counter() - start_time) * 1000.0: what a handshake of each
\* kind takes
ElapsedMs(part) == IF part = "classical" THEN {100} ELSE {200}

\* random.uniform(0.0, jitter) = 0.0 + (jitter - 0.0) * random.random():
\* the draw u stands for random() = u / UniformSteps
Scale == 100 * 500 * UniformSteps

\* variant: the latency is added as it is given
SimulateNetworkPenalties_NoClamp(elapsed_ms, latency_ms, packet_loss_percent, u) ==
    LET adjusted == elapsed_ms + latency_ms IN
    IF packet_loss_percent > 0
    THEN adjusted * (100 + packet_loss_percent) * 500 * UniformSteps
         + adjusted * (100 + packet_loss_percent) * packet_loss_percent * u
    ELSE adjusted * Scale
\* _simulate_network_penalties(elapsed_ms, latency_ms, packet_loss_percent),
\* in units of 1/Scale ms:
\*   adjusted = elapsed_ms + max(latency_ms, 0.0)
\*   if packet_loss_percent > 0.0:
\*       adjusted *= 1.0 + packet_loss_percent / 100.0
\*       jitter = adjusted * (packet_loss_percent / 500.0)
\*       adjusted += random.uniform(0.0, jitter)            (lines 41-46)
SimulateNetworkPenalties(elapsed_ms, latency_ms, packet_loss_percent, u) ==
    LET adjusted == elapsed_ms + Max(latency_ms, 0) IN
    IF packet_loss_percent > 0
    THEN adjusted * (100 + packet_loss_percent) * 500 * UniformSteps
         + adjusted * (100 + packet_loss_percent) * packet_loss_percent * u
    ELSE adjusted * Scale

\* the draws of random.uniform the harness is run with: both ends of the
\* interval; no draw is made when there is no loss
JitterDraws(packet_loss_percent) ==
    IF packet_loss_percent > 0 THEN {0, UniformSteps} ELSE {0}

RECURSIVE SeqSum(_)
SeqSum(seq) == IF seq = <<>> THEN 0 ELSE seq[1] + SeqSum(Tail(seq))
\* variant: the mean of all samples but the first
Mean_DropFirst(seq) == [sum |-> SeqSum(Tail(seq)), n |-> Len(seq) - 1]
\* statistics.mean(samples[mode]), as the fraction sum / n      (line 208)
Mean(seq) == [sum |-> SeqSum(seq), n |-> Len(seq)]

\* variant: inside measure_hybrid_handshake the latency is passed to the
\* first call only
HybridCallLatency_Once(part, latency_ms) ==
    IF part = "classical" THEN latency_ms ELSE 0
\* measure_hybrid_handshake passes its latency_ms to both of its calls
\*                                                        (lines 116-117)
HybridCallLatency(part, latency_ms) == latency_ms

\* variant: the two results are not added
HybridTime_PqcOnly(classical_time, pqc_time) == pqc_time
\* return classical_time + pqc_time                             (line 118)
HybridTime(classical_time, pqc_time) == classical_time + pqc_time

\* variant: a failed connect() is not turned into an exception
OnConnectResult_Swallowed(ok) == "none"
\* if not client.connect(): raise RuntimeError(...)          (lines 98-99)
OnConnectResult(ok) == IF ok THEN "none" ELSE "RuntimeError"

InitBench ==
    /\ InitChannel /\ mode = "pqc" /\ rx = RxIdle
    /\ bench = [pc |-> "idle", modes_to_run |-> <<>>, modes |-> {},
                progress_callback |-> FALSE, callbacks |-> <<>>,
                latency_ms |-> 0, packet_loss_percent |-> 0,
                mi |-> 1, iter |-> 0,
                part |-> "none", started |-> 0, alive |-> 0,
                connect |-> "none", exc |-> "none",
                timer |-> "off", timed |-> <<>>, elapsed_ms |-> 0,
                td |-> Teardown0, classical_time |-> 0,
                log |-> <<>>, samples |-> <<>>, means |-> <<>>,
                result |-> "none"]

\* run_all_benchmarks(modes_to_run, latency_ms, packet_loss_percent):
\* the settings are clamped at 0, samples = {}             (lines 146-160)
RunAllBenchmarks ==
    /\ bench.pc = "idle"
    /\ \E list \in ModeLists, set \in Settings, cb \in BOOLEAN :
          LET lowered == [i \in 1..Len(list) |-> ModeLower(list[i])] IN
          bench' = [bench EXCEPT !.pc = "loop",
                                 !.modes_to_run = lowered,
                                 !.modes = Elems(lowered),
                                 !.progress_callback = cb,
                                 !.latency_ms = Max(set[1], 0),
                                 !.packet_loss_percent = Max(set[2], 0)]
    /\ UNCHANGED <<channelVars, rx>>

\* the three blocks in their fixed order, each `samples[mode] = []` and a
\* loop of ITERATIONS_PER_MODE calls of the mode's measure function
\*                                                         (lines 162-181)
BenchLoop ==
    /\ bench.pc = "loop"
    /\ IF bench.mi > Len(ModeOrder)
       THEN bench' = [bench EXCEPT !.pc = "report"]
       ELSE IF ModeOrder[bench.mi] \notin Elems(bench.modes_to_run)
                 \/ bench.iter = IterationsPerMode
       THEN bench' = [bench EXCEPT !.mi = @ + 1, !.iter = 0]
       ELSE bench' = [bench EXCEPT
                        !.pc = "m_start", !.iter = @ + 1,
                        !.part = IF ModeOrder[bench.mi] = "hybrid"
                                 THEN "classical" ELSE ModeOrder[bench.mi],
                        !.samples =
                            IF bench.iter = 0
                            THEN [m \in DOMAIN @ \cup {ModeOrder[bench.mi]} |->
                                    IF m = ModeOrder[bench.mi] THEN <<>> ELSE @[m]]
                            ELSE @]
    /\ UNCHANGED <<channelVars, rx>>

\* a measure function up to its try: the server is created and its thread
\* started, the settle delay, the client is created           (lines 87-95)
MeasureStart ==
    /\ bench.pc = "m_start"
    /\ bench' = [bench EXCEPT !.pc = "m_connect", !.started = @ + 1,
                              !.alive = @ + 1, !.connect = "none",
                              !.timer = "off", !.timed = <<>>,
                              !.td = Teardown0]
    /\ UNCHANGED <<channelVars, rx>>

\* start_time = time.perf_counter(); if not client.connect(): raise
\*                                                          (lines 97-99)
MeasureConnect ==
    /\ bench.pc = "m_connect"
    /\ \E ok \in BOOLEAN :
          bench' = [bench EXCEPT
                      !.timer = "running", !.timed = <<"connect">>,
                      !.connect = IF ok THEN "True" ELSE "False",
                      !.exc = OnConnectResult(ok),
                      !.pc = IF OnConnectResult(ok) = "none"
                             THEN "m_timed" ELSE "fin_disconnect"]
    /\ UNCHANGED <<channelVars, rx>>

\* client.disconnect(); elapsed_ms = (time.perf_counter() - start_time)
\* * 1000.0                                                (lines 100-101)
MeasureTimed ==
    /\ bench.pc = "m_timed"
    /\ \E e \in ElapsedMs(bench.part) :
          bench' = [bench EXCEPT !.pc = "fin_disconnect",
                                 !.timed = Append(@, "disconnect"),
                                 !.timer = "stopped", !.elapsed_ms = e]
    /\ UNCHANGED <<channelVars, rx>>

\* finally: client.disconnect()                                 (line 103)
FinallyDisconnect ==
    /\ bench.pc = "fin_disconnect"
    /\ bench' = [bench EXCEPT !.pc = "fin_stop", !.td.disconnect = TRUE]
    /\ UNCHANGED <<channelVars, rx>>

\* finally: server.stop()                                       (line 104)
FinallyStop ==
    /\ bench.pc = "fin_stop"
    /\ bench' = [bench EXCEPT !.pc = "fin_join", !.td.stop = TRUE]
    /\ UNCHANGED <<channelVars, rx>>

\* finally: server_thread.join(timeout=2.0) returns when the thread has
\* ended or when the two seconds are over; time.sleep(0.05) (lines 105-106)
FinallyJoin ==
    /\ bench.pc = "fin_join"
    /\ \E ended \in BOOLEAN :
          bench' = [bench EXCEPT !.pc = "m_exit", !.td.join = TRUE,
                                !.alive = IF ended THEN @ - 1 ELSE @]
    /\ UNCHANGED <<channelVars, rx>>

\* the measure function is left: by the exception in flight, which neither
\* measure_hybrid_handshake nor run_all_benchmarks catches, or by
\* `return _simulate_network_penalties(elapsed_ms, ...)`; the hybrid
\* function keeps the first result and goes on to its second call, or
\* adds the two; the loop appends the sample and calls the callback
\*                                            (lines 108, 116-118, 165-179)
MeasureExit ==
    /\ bench.pc = "m_exit"
    /\ IF bench.exc # "none"
       THEN bench' = [bench EXCEPT !.pc = "raised"]
       ELSE \E u \in JitterDraws(bench.packet_loss_percent) :
            LET block == ModeOrder[bench.mi]
                latency == IF block = "hybrid"
                           THEN HybridCallLatency(bench.part, bench.latency_ms)
                           ELSE bench.latency_ms
                value == SimulateNetworkPenalties(bench.elapsed_ms,
                             latency, bench.packet_loss_percent, u)
                logged == Append(bench.log,
                                 <<block, bench.iter, bench.part, value>>)
            IN IF block = "hybrid" /\ bench.part = "classical"
               THEN bench' = [bench EXCEPT !.pc = "m_start", !.part = "pqc",
                                           !.classical_time = value,
                                           !.log = logged]
               ELSE bench' = [bench EXCEPT
                        !.pc = "loop", !.log = logged,
                        !.callbacks =
                            IF bench.progress_callback
                            THEN Append(@, <<CallbackLabel(block), bench.iter,
                                             IterationsPerMode>>)
                            ELSE @,
                        !.samples[block] =
                            Append(@, IF block = "hybrid"
                                      THEN HybridTime(bench.classical_time, value)
                                      ELSE value)]
    /\ UNCHANGED <<channelVars, rx>>

\* the key sizes; `for mode in modes_to_run: if mode in samples and
\* samples[mode]: ... = statistics.mean(samples[mode])`; return results
\*                                                         (lines 183-210)
BenchReport ==
    /\ bench.pc = "report"
    /\ bench' = [bench EXCEPT
                   !.pc = "returned", !.result = "returned",
                   !.means = [m \in {x \in Elems(bench.modes_to_run)
                                               \cap DOMAIN bench.samples :
                                        bench.samples[x] # <<>>} |->
                                 Mean(bench.samples[m])]]
    /\ UNCHANGED <<channelVars, rx>>

\* --------------------------------------------- _simulate_network_penalties
\* one call of the function, for raw timings a timer can return and for
\* latencies and loss rates of either sign
RawMs == {0, 1, 100, 250}
LatencyMs == {-30, 0, 30}
LossPercent == {-2, 0, 2, 100}

InitPenalty ==
    /\ InitChannel /\ mode = "pqc" /\ rx = RxIdle
    /\ \E e \in RawMs, l \in LatencyMs, p \in LossPercent :
          bench = [pc |-> "sim_call", elapsed_ms |-> e, latency_ms |-> l,
                   packet_loss_percent |-> p, adjusted |-> 0]

\* the call returns; random.uniform is drawn only under a positive loss
SimulateCall ==
    /\ bench.pc = "sim_call"
    /\ \E u \in IF bench.packet_loss_percent > 0 THEN 0..UniformSteps ELSE {0} :
          bench' = [bench EXCEPT
                      !.pc = "sim_returned",
                      !.adjusted = SimulateNetworkPenalties(bench.elapsed_ms,
                                       bench.latency_ms,
                                       bench.packet_loss_percent, u)]
    /\ UNCHANGED <<channelVars, rx>>

\* ------------------------------------ a measure function and its server
\* measure_pqc_handshake (mode "pqc") or measure_classical_handshake (mode
\* "classical"), called IterationsPerMode times, together with the server
\* thread each call starts and the client it connects.  The harness is one
\* more sequential process next to the server thread; time.sleep() lets
\* time pass and orders nothing, join(timeout=2.0) returns when the thread
\* has ended or when the timeout is over.
\*   pc       the statement the harness is at
\*   iter     the calls made so far
\*   dialed   the state of the listening socket when connect() was issued
\*   connect  what connect() returned; exc: the exception in flight
\*   td       the statements of the finally clause that have run
\*   joined   how join() returned: "ended" | "timeout"
\*   orphans  server threads of earlier calls that had not ended when the
\*            next server was created (they and their server object are
\*            followed no further: each call has a port of its own)
InitMeasure ==
    /\ InitChannel /\ rx = RxIdle
    /\ bench = [pc |-> "server", iter |-> 0, dialed |-> "none",
                connect |-> "none", exc |-> "none", td |-> Teardown0,
                joined |-> "none", orphans |-> 0]

\* server = PQCServer(host, port) on a free port, and the client object
\* created at line 95: fresh objects, a fresh address       (lines 87-90, 95)
HarnessServer ==
    /\ bench.pc = "server"
    /\ running' = FALSE
    /\ server_socket' = "None"
    /\ last_received_message' = None
    /\ event' = FALSE
    /\ spc' = "idle"
    /\ handler_socket' = "None"
    /\ srv' = SrvLocals0
    /\ client_socket' = "None"
    /\ aesgcm' = None
    /\ connected' = FALSE
    /\ cpc' = "idle"
    /\ cli' = CliLocals0
    /\ c2s' = <<>> /\ s2c' = <<>> /\ c2sEOF' = FALSE /\ s2cEOF' = FALSE
    /\ pending' = FALSE
    /\ bench' = [bench EXCEPT
                   !.pc = "thread", !.iter = @ + 1, !.dialed = "none",
                   !.connect = "none", !.td = Teardown0, !.joined = "none",
                   !.orphans = IF spc \in {"idle", "done"} THEN @ ELSE @ + 1]
    /\ UNCHANGED <<mode, rx, nconn, stpc, ret, hist>>

\* server_thread = threading.Thread(target=server.start, daemon=True);
\* server_thread.start()                                     (lines 91-92)
HarnessThread ==
    /\ bench.pc = "thread"
    /\ ThreadStartWith([bench EXCEPT !.pc = "connect"])

\* time.sleep(0.1); start_time = ...; client.connect() is entered: the
\* socket is created and connect((host, port)) issued      (lines 93-98)
HarnessConnect ==
    /\ bench.pc = "connect"
    /\ ConnectWith(IterationsPerMode,
                   [bench EXCEPT !.pc = "in_connect", !.dialed = server_socket])

\* connect() has returned: `if not client.connect(): raise RuntimeError`
HarnessConnected ==
    /\ bench.pc = "in_connect"
    /\ cpc = "idle"
    /\ ret.connect \in {"True", "False"}
    /\ bench' = [bench EXCEPT
                   !.connect = ret.connect,
                   !.exc = OnConnectResult(ret.connect = "True"),
                   !.pc = IF OnConnectResult(ret.connect = "True") = "none"
                          THEN "timed" ELSE "fin_disconnect"]
    /\ UNCHANGED <<channelVars, rx>>

\* client.disconnect(); elapsed_ms = ...                  (lines 100-101)
HarnessTimedDisconnect ==
    /\ bench.pc = "timed"
    /\ DisconnectWith([bench EXCEPT !.pc = "fin_disconnect"])

\* finally: client.disconnect()                                 (line 103)
HarnessFinallyDisconnect ==
    /\ bench.pc = "fin_disconnect"
    /\ DisconnectWith([bench EXCEPT !.pc = "fin_stop", !.td.disconnect = TRUE])

\* finally: server.stop(), its two statements                   (line 104)
HarnessStop ==
    /\ bench.pc = "fin_stop"
    /\ StopSetFlagWith([bench EXCEPT !.pc = "fin_stop_close"])

HarnessStopClose ==
    /\ bench.pc = "fin_stop_close"
    /\ StopCloseWith([bench EXCEPT !.pc = "fin_join", !.td.stop = TRUE])

\* finally: server_thread.join(timeout=2.0); time.sleep(0.05)
\*                                                        (lines 105-106)
HarnessJoin ==
    /\ bench.pc = "fin_join"
    /\ bench' = [bench EXCEPT
                   !.pc = "exit", !.td.join = TRUE,
                   !.joined = IF spc = "done" THEN "ended" ELSE "timeout"]
    /\ UNCHANGED <<channelVars, rx>>

\* the function is left by the exception, which its callers do not catch,
\* or by its return, and the loop calls it again     (lines 108, 164-181)
HarnessExit ==
    /\ bench.pc = "exit"
    /\ bench' = [bench EXCEPT
                   !.pc = IF bench.exc # "none" THEN "raised"
                          ELSE IF bench.iter < IterationsPerMode THEN "server"
                          ELSE "returned"]
    /\ UNCHANGED <<channelVars, rx>>

\* ----------------------------------------------------------- specification
Connect == ConnectUpTo(MaxConns)
SendMessage == SendMessageOf(Messages, MaxSend)
AttackedConnect == ConnectUpTo(MaxAttackConns)
AttackedSendMessage == SendMessageOf(AttackedMessages, MaxAttackSend)

ServerThread ==
    \/ ThreadStart \/ StartSetRunning \/ StartListen \/ Accept
    \/ ServerSendSigPk \/ ServerRecvSigPk \/ ServerRecvKemPk \/ ServerRecvKemSig
    \/ ClServerSendPub \/ ClServerRecvPub
    \/ ServeLoopCheck \/ ServerReceive \/ ServerStore \/ ServerSignal

ClientHandshake ==
    \/ ClientRecvSigPk \/ ClientSendKeys \/ ClientRecvCt \/ ClientRecvCtSig
    \/ ClClientRecvPub

\* A reliable network: server thread, client, and the caller's stop() and
\* event.clear().
Next ==
    \/ ServerThread \/ AcceptLoopExit \/ Cleanup
    \/ StopSetFlag \/ StopClose \/ EventClear
    \/ Connect \/ ClientHandshake \/ SendMessage \/ Disconnect

Spec == Init /\ [][Next]_vars

\* A network under an active attacker, in front of a server nobody stops.
NextAttack ==
    \/ ServerThread
    \/ AttackedConnect \/ ClientHandshake \/ AttackedSendMessage \/ Disconnect
    \/ TamperC2S \/ TamperS2C \/ TamperMessage \/ Cut

SpecAttack == Init /\ [][NextAttack]_vars

\* the receive of the serving loop on a stream the peer has closed with
\* nothing left unread: recv returns b"" (server_pqc.py lines 253-255)
ServerReadsClosed == c2sEOF /\ c2s = <<>> /\ ServerReceive

\* SpecAttack with the handler scheduled inside its serving loop: the
\* loop condition is evaluated whenever it is reached, and a recv on a
\* closed stream returns
SpecAttackLive ==
    /\ Init /\ [][NextAttack]_vars
    /\ WF_vars(ServeLoopCheck) /\ WF_vars(ServerReadsClosed)

\* Spec with the thread of start() scheduled where it leaves its loop:
\* accept() returns after at most its 1.0 s timeout (line 36), so the loop
\* condition is evaluated again, and the finally clause runs after the loop
SpecLive ==
    Init /\ [][Next]_vars /\ WF_vars(AcceptLoopExit) /\ WF_vars(Cleanup)

\* one field read, for every field length, every point at which the peer
\* may close and every way the bytes may arrive and be returned by recv
NextRecv == RxArrive \/ RxPeerClose \/ RxRecv \/ RxReturn
SpecRecv == InitRecv /\ [][NextRecv]_vars

\* the harness, for every choice of modes and every outcome of connect()
NextBench ==
    \/ RunAllBenchmarks \/ BenchLoop
    \/ MeasureStart \/ MeasureConnect \/ MeasureTimed
    \/ FinallyDisconnect \/ FinallyStop \/ FinallyJoin
    \/ MeasureExit \/ BenchReport
SpecBench == InitBench /\ [][NextBench]_vars

\* _simulate_network_penalties on its own
NextPenalty == SimulateCall
SpecPenalty == InitPenalty /\ [][NextPenalty]_vars

\* a measure function, the server threads it starts and its client
HarnessSteps ==
    \/ HarnessServer \/ HarnessThread \/ HarnessConnect \/ HarnessConnected
    \/ HarnessTimedDisconnect \/ HarnessFinallyDisconnect
    \/ HarnessStop \/ HarnessStopClose \/ HarnessJoin \/ HarnessExit
StartedThread ==
    \/ StartSetRunning \/ StartListen \/ Accept
    \/ ServerSendSigPk \/ ServerRecvSigPk \/ ServerRecvKemPk \/ ServerRecvKemSig
    \/ ClServerSendPub \/ ClServerRecvPub
    \/ ServeLoopCheck \/ ServerReceive
    \/ AcceptLoopExit \/ Cleanup
NextMeasure == HarnessSteps \/ StartedThread \/ ClientHandshake
SpecMeasure == InitMeasure /\ [][NextMeasure]_vars

\* SpecMeasure with the started thread scheduled: the statements of
\* start() before its loop do not block, and accept() returns after at
\* most its 1.0 s timeout, so the loop condition is evaluated again
SpecMeasureLive ==
    /\ InitMeasure /\ [][NextMeasure]_vars
    /\ WF_vars(StartSetRunning) /\ WF_vars(StartListen)
    /\ WF_vars(AcceptLoopExit) /\ WF_vars(Cleanup)

\* A server nobody stops and a client that dials again after a handshake
\* has failed, on a network that replaces handshake fields and cuts
\* connections; no message is sent.
HandshakingThread ==
    \/ ThreadStart \/ StartSetRunning \/ StartListen \/ Accept
    \/ ServerSendSigPk \/ ServerRecvSigPk \/ ServerRecvKemPk \/ ServerRecvKemSig
    \/ ClServerSendPub \/ ClServerRecvPub
    \/ ServeLoopCheck \/ ServerReceive
NextRetry ==
    \/ HandshakingThread
    \/ Connect \/ ClientHandshake \/ Disconnect
    \/ TamperC2S \/ TamperS2C \/ Cut
SpecRetry == Init /\ [][NextRetry]_vars

\* a reliable network and a caller that follows the test's protocol of
\* clearing the event before a send
NextObserver ==
    \/ ServerThread
    \/ Connect \/ ClientHandshake \/ SendMessage \/ Disconnect
    \/ ObserverClear
SpecObserver == Init /\ [][NextObserver]_vars

\* ------------------------------------------------------------------ claims
IsKey(k) == k[1] = "key"

\* C1: in every post-quantum handshake over a reliable, unmodified stream
\* that the server accepted, neither role fails, and once both have returned
\* the client's key (from decapsulation) is the server's key (from
\* encapsulation).
C1_PqcKeysAgree ==
    (mode = "pqc" /\ ~hist.tampered /\ ~hist.cut /\ ~hist.reset) =>
        /\ hist.skey # None
        /\ hist.ckey # None
        /\ (hist.skey # Pending /\ hist.ckey # Pending) =>
              /\ IsKey(hist.ckey)
              /\ hist.ckey = hist.skey
        /\ connected => (aesgcm = hist.ckey /\ hist.skey = hist.ckey)
        /\ srv.aes_key # None => srv.aes_key = hist.skey

C1_Witness ==
    /\ mode = "pqc"
    /\ connected
    /\ IsKey(aesgcm)
    /\ srv.aes_key = aesgcm
    /\ hist.decap
    /\ hist.sct = hist.rct

\* C2: the post-quantum server encapsulates, sends a ciphertext and serves
\* messages only after the signature over the client's KEM public key has
\* verified against the client signing key it received; when the check
\* fails it returns no key, sends nothing more on the connection and
\* delivers no message from it.
C2_ServerFailsClosed ==
    mode = "pqc" =>
        /\ hist.sverify \in {"none", "ok", "failed"}
        /\ ( \/ hist.sct # Pending
             \/ "ct" \in {hist.wire[i] : i \in 1..Len(hist.wire)}
             \/ IsKey(hist.skey)
             \/ srv.aes_key # None
             \/ spc \in {"serve_loop", "serve_recv", "serve_store", "serve_event"}
             \/ hist.delivered # <<>> ) => hist.sverify = "ok"
        /\ hist.sverify = "failed" =>
              /\ hist.skey = None
              /\ hist.wire \in {<<"sigpk_s">>,
                                <<"sigpk_s", "sigpk_c", "kempk_c", "sig_kempk">>}
              /\ hist.delivered = <<>>
              /\ handler_socket = "None"
              /\ s2cEOF

C2_Witness ==
    /\ mode = "pqc"
    /\ hist.sverify = "failed"
    /\ hist.tampered
    /\ hist.skey = None
    /\ spc = "accept"
    /\ "sig_kempk" \in {hist.wire[i] : i \in 1..Len(hist.wire)}

\* The ciphertext, or its signature, reached the client and is not what the
\* server signed and sent.
C3_Differs ==
    /\ mode = "pqc"
    /\ hist.sct # Pending
    /\ \/ hist.rct \notin {Pending, hist.sct}
       \/ hist.rsig \notin {Pending, Sign("S", hist.sct)}

\* The client ends without a key: no successful check, no decapsulation,
\* connect() returns False, connected is False, no AEAD key.
C3_NoKey ==
    /\ hist.cverify # "ok"
    /\ ~hist.decap
    /\ hist.ckey \in {Pending, None}
    /\ ~connected
    /\ aesgcm = None
    /\ cpc = "idle" => (ret.connect = "False" /\ client_socket = "None")

\* C3: if the ciphertext or the ciphertext signature that reaches the
\* post-quantum client differs from what the server signed, and the server
\* signing key reached the client as the server sent it, the client's check
\* does not succeed, the client never decapsulates, obtains no key, connect()
\* returns False and the client ends with connected = False and no AEAD key.
C3_ClientFailsClosed ==
    (C3_Differs /\ hist.rsigpk = SigPk("S")) => C3_NoKey

C3_Witness ==
    /\ C3_Differs
    /\ hist.rsigpk = SigPk("S")
    /\ hist.rct # hist.sct
    /\ hist.rsig = Sign("S", hist.sct)
    /\ hist.cverify = "failed"
    /\ cpc = "idle"
    /\ ret.connect = "False"

\* C3 as stated, for whatever signing key reached the client: refuted by
\* an attacker that replaces the server signing key, the ciphertext and the
\* signature by its own.
C3_AsStated == C3_Differs => C3_NoKey

PqcFieldOrder ==
    <<"sigpk_s", "sigpk_c", "kempk_c", "sig_kempk", "ct", "sig_ct">>

IsPrefix(a, b) == Len(a) <= Len(b) /\ a = SubSeq(b, 1, Len(a))

\* The handler is inside a receive that cannot return yet.
ServerAwaits ==
    \/ /\ spc \in {"hs_recv_sigpk", "hs_recv_kempk", "hs_recv_sig"}
       /\ ReceiveField(c2s, c2sEOF).st = "block"
    \/ /\ spc = "serve_recv"
       /\ ReceiveEncryptedMessage(c2s, c2sEOF, srv.aes_key).st = "block"

\* The client is inside a handshake receive that cannot return yet.
ClientAwaits ==
    /\ cpc \in {"hs_recv_sigpk", "hs_recv_ct", "hs_recv_sig"}
    /\ ReceiveField(s2c, s2cEOF).st = "block"

\* C4: the fields of the post-quantum handshake are written in the order
\* server signing key, client signing key, client KEM key, signature over the
\* KEM key, ciphertext, signature over the ciphertext; each role reads at
\* each step the field the other wrote for it; and in no state are both
\* roles waiting to receive while the connection is open.
C4_HandshakeOrder ==
    mode = "pqc" =>
        /\ IsPrefix(hist.wire, PqcFieldOrder)
        /\ cli.sigpk \in {None, SigPk("S")}
        /\ srv.sigpk \in {None, SigPk("C")}
        /\ srv.kempk \in {None, KemPk("C")}
        /\ cli.ct \in {None, Ct("C", "S")}
        /\ hist.rsig \in {Pending, Sign("S", Ct("C", "S"))}
        /\ ~(ConnUp /\ ServerAwaits /\ ClientAwaits)

C4_Witness ==
    /\ mode = "pqc"
    /\ hist.wire = PqcFieldOrder
    /\ hist.rsig = Sign("S", Ct("C", "S"))
    /\ ConnUp
    /\ ServerAwaits
    /\ cpc = "idle"

\* C5: for every classical handshake that completes on both sides over an
\* unmodified stream, the key the client derived equals the key the server
\* derived.
C5_ClassicalKeysAgree ==
    (mode = "classical" /\ ~hist.tampered /\ ~hist.cut
       /\ IsKey(hist.skey) /\ IsKey(hist.ckey)) =>
        /\ hist.ckey = hist.skey
        /\ connected => aesgcm = hist.skey
        /\ srv.aes_key # None => srv.aes_key = hist.ckey

C5_Witness ==
    /\ mode = "classical"
    /\ connected
    /\ IsKey(aesgcm)
    /\ srv.aes_key = aesgcm
    /\ hist.wire = <<"pub_s", "pub_c">>

\* The keys the repository's own handshake code returned or installed.
ClientKeys == {k \in {aesgcm, hist.ckey} : IsKey(k)}
PqcServerKeys ==
    IF mode = "pqc" THEN {k \in {srv.aes_key, hist.skey} : IsKey(k)} ELSE {}

\* C6: the channel key is exactly 32 bytes on both paths; on the classical
\* path the client derives it from the ECDH output with HKDF under the fixed
\* label; on the post-quantum path client and server take the first 32 bytes
\* of the raw KEM secret, with no derivation step and no label.
C6_KeyDerivation ==
    \A k \in ClientKeys \cup PqcServerKeys :
        /\ KeyLen(k) = AES_KEY_LEN
        /\ mode = "classical" => (KeyLabel(k) = HKDF_INFO /\ k[3] = "ecdh")
        /\ mode = "pqc" => (KeyLabel(k) = "raw" /\ k[3] \in {"kem", "rej"})

C6_Witness ==
    /\ mode = "pqc"
    /\ connected
    /\ KeyLabel(aesgcm) = "raw"
    /\ KeyLen(aesgcm) = AES_KEY_LEN
    /\ IsKey(srv.aes_key)
    /\ KeyLabel(srv.aes_key) = "raw"

\* C6 as stated: on both paths the key comes out of the key derivation with
\* the fixed label and is 32 bytes long.
C6_AsStated ==
    \A k \in ClientKeys \cup PqcServerKeys :
        KeyLabel(k) = HKDF_INFO /\ KeyLen(k) = AES_KEY_LEN

\* C7: after connect() failed (nobody listening, socket error, handshake
\* failure) it has returned False, connected is False, the AEAD key is
\* absent and the socket is closed and cleared; and in every state
\* connected = True implies a derived AEAD key and an open socket.
C7_ConnectFailsClean ==
    /\ connected => (IsKey(aesgcm) /\ client_socket = "open")
    /\ cpc # "idle" => (~connected /\ aesgcm = None /\ client_socket = "open")
    /\ (cpc = "idle" /\ ret.connect = "False") =>
          (~connected /\ aesgcm = None /\ client_socket = "None")
    /\ (cpc = "idle" /\ hist.ckey = None) =>
          (ret.connect = "False" /\ c2sEOF /\ s2c = <<>>)

C7_Witness ==
    /\ cpc = "idle"
    /\ ret.connect = "False"
    /\ hist.ckey = None
    /\ hist.wire # <<>>
    /\ client_socket = "None"
    /\ c2sEOF

Last(seq) == seq[Len(seq)]
ServeStates == {"serve_loop", "serve_recv", "serve_store", "serve_event"}

\* The texts of the whole frames still unread in the client's stream (a
\* frame is four tokens), and the text decrypted but not yet stored.
InFlight == [i \in 1..(Len(c2s) \div 4) |-> c2s[4 * i][4]]
Decrypted == IF spc \in {"serve_store"} THEN <<srv.message>> ELSE <<>>

NoSentinel(seq) == \A i \in 1..Len(seq) : Lower(seq[i]) # "exit"

\* C8: for messages m1..mn, none the sentinel, sent with send_message on one
\* connected client over a reliable transport, last_received_message takes
\* the values m1..mn in send order, each once: what was stored is a prefix
\* of what was sent, the last stored one is last_received_message, and while
\* the handler serves the connection the sent messages are exactly the
\* stored ones followed by the ones still on their way.
C8_InOrderDelivery ==
    (NoSentinel(hist.sent) /\ ~hist.tampered /\ ~hist.cut) =>
        /\ IsPrefix(hist.delivered, hist.sent)
        /\ hist.delivered # <<>> =>
              last_received_message = Last(hist.delivered)
        /\ (spc \in ServeStates /\ ConnUp) =>
              hist.sent = hist.delivered \o Decrypted \o InFlight
        /\ (spc = "serve_recv" /\ c2s = <<>>) => hist.delivered = hist.sent

C8_Witness ==
    /\ Len(hist.sent) = 2
    /\ NoSentinel(hist.sent)
    /\ hist.sent[1] # hist.sent[2]
    /\ hist.delivered = hist.sent
    /\ last_received_message = hist.sent[2]
    /\ spc = "serve_recv"

\* The handler is about to signal a message that is the sentinel.
C9_AtSentinel == spc = "serve_event" /\ Lower(srv.message) = "exit"

C9_State ==
    /\ spc = "serve_event" => last_received_message = srv.message
    /\ \A i \in 1..(Len(hist.delivered) - 1) :
          Lower(hist.delivered[i]) # "exit"
    /\ (hist.delivered # <<>> /\ Lower(Last(hist.delivered)) = "exit") =>
          spc \notin {"serve_loop", "serve_recv", "serve_store"}
    /\ hist.sentinel =>
          /\ hist.delivered # <<>>
          /\ Lower(Last(hist.delivered)) = "exit"
          /\ handler_socket = "None"
          /\ s2cEOF
          /\ spc \notin ServeStates

C9_Step ==
    (C9_AtSentinel /\ spc' # spc) =>
        /\ last_received_message' = srv.message
        /\ event'
        /\ handler_socket' = "None"
        /\ s2cEOF'
        /\ c2s' = <<>>
        /\ spc' = "accept"
        /\ hist'.sentinel

\* C9: a decrypted message equal to "exit" ignoring case is stored in
\* last_received_message before the event is signalled; the step that
\* signals it leaves the read loop, closes the connection socket and ends
\* the handler; and nothing sent on the connection after the sentinel is
\* delivered.
C9_SentinelEndsLoop == []C9_State /\ [][C9_Step]_vars

C9_Witness ==
    /\ hist.sentinel
    /\ last_received_message = "EXIT"
    /\ Len(hist.sent) = 2
    /\ hist.sent[1] = "EXIT"
    /\ hist.delivered = <<"EXIT">>
    /\ spc = "accept"

\* The frame at the head of the handler's stream fails to arrive: it does
\* not authenticate under the handler's key, its plaintext is no UTF-8, or
\* the stream ends inside it.
C10_AuthFails ==
    LET f1 == ReceiveField(c2s, c2sEOF)
        f2 == ReceiveField(f1.rest, c2sEOF) IN
    /\ f1.st = "ok"
    /\ f2.st = "ok"
    /\ ~AeadOpens(srv.aes_key, f1.v, f2.v, NoAad)

C10_Undecodable ==
    LET f1 == ReceiveField(c2s, c2sEOF)
        f2 == ReceiveField(f1.rest, c2sEOF) IN
    /\ f1.st = "ok"
    /\ f2.st = "ok"
    /\ AeadOpens(srv.aes_key, f1.v, f2.v, NoAad)
    /\ f2.v[4] = BadUtf8

C10_ClosedInside ==
    /\ c2sEOF
    /\ Len(c2s) \in 1..3
    /\ \A i \in 1..Len(c2s) : c2s[i] # Hdr(0)

C10_FrameFails ==
    /\ spc = "serve_recv"
    /\ C10_AuthFails \/ C10_Undecodable \/ C10_ClosedInside

C10_Step ==
    (C10_FrameFails /\ spc' # spc) =>
        /\ last_received_message' = last_received_message
        /\ event' = event
        /\ hist'.delivered = hist.delivered
        /\ hist'.recvfail = Len(hist.delivered)
        /\ handler_socket' = "None"
        /\ s2cEOF'
        /\ c2s' = <<>>
        /\ spc' = "accept"
        /\ running' = running
        /\ server_socket' = server_socket

C10_State ==
    hist.recvfail >= 0 =>
        /\ Len(hist.delivered) = hist.recvfail
        /\ handler_socket = "None"
        /\ c2s = <<>>
        /\ spc = "accept"
        /\ running
        /\ server_socket = "listening"

ClearedThenSentOne == hist.cleared >= 0 /\ Len(hist.sent) = hist.cleared + 1

\* the step that sets the event finds the message it signals already stored
C11_Step ==
    (event' /\ ~event) =>
        /\ last_received_message = srv.message
        /\ last_received_message = Last(hist.delivered)
        /\ last_received_message' = last_received_message

C11_State ==
    (event /\ ClearedThenSentOne /\ hist.quiet) =>
        last_received_message = Last(hist.sent)

\* C11: the server stores a received message in last_received_message
\* before it sets the event, and a caller that clears the event when every
\* earlier message has been stored and signalled, then sends m, then sees
\* the event set, reads last_received_message = m as long as no later
\* message has been sent.
C11_StoreBeforeSignal == []C11_State /\ [][C11_Step]_vars

\* the caller cleared, sent one message and sees the event set again
C11_Witness ==
    /\ event /\ ClearedThenSentOne /\ hist.quiet
    /\ hist.cleared = 1
    /\ last_received_message = hist.sent[2]

\* C11 as stated, for every moment at which the caller may clear the event
C11_AsStated ==
    (event /\ ClearedThenSentOne) => last_received_message = Last(hist.sent)

\* ---------------------------------------------------------------------- C12
\* variant: the lock is taken around the whole body of the read loop
ServerHoldsLock_LoopBody == spc \in {"serve_recv", "serve_store", "serve_event"}
\* self._lock (line 21) is acquired in one place, the `with self._lock:`
\* around the write of last_received_message (lines 80-81): the thread of
\* start() holds it during that step and nowhere else
ServerHoldsLock == spc = "serve_store"
\* stop() (lines 259-269) and the callers that read last_received_message
\* acquire nothing
CallerHoldsLock == FALSE
\* the thread whose step this is holds the lock during it
StepHoldsLock == IF stpc' # stpc THEN CallerHoldsLock ELSE ServerHoldsLock

\* C12: every write of last_received_message and of the running flag, by
\* the thread of start() and by the callers of stop(), is performed while
\* holding the server's lock.
C12_AsStated ==
    [][(running' # running \/ last_received_message' # last_received_message)
          => StepHoldsLock]_vars

\* ---------------------------------------------------------------------- C13
\* the listener's state as the thread of start() goes through it
Phase ==
    IF spc \in {"idle", "start", "bind", "cleanup", "done"} THEN "Stopped"
    ELSE IF spc = "accept" THEN "Listening"
    ELSE IF spc \in ServeStates THEN "Serving"
    ELSE "Handshaking"

PhaseSteps ==
    {<<"Stopped", "Listening">>, <<"Listening", "Handshaking">>,
     <<"Handshaking", "Serving">>, <<"Handshaking", "Listening">>,
     <<"Serving", "Listening">>, <<"Listening", "Stopped">>}

\* a connection socket exists exactly while one connection is handled
C13_State ==
    /\ (Phase \in {"Handshaking", "Serving"}) <=> (handler_socket = "open")
    /\ Phase = "Serving" => IsKey(srv.aes_key)
    /\ handler_socket = "open" => ~pending

C13_Step ==
    /\ Phase' # Phase => <<Phase, Phase'>> \in PhaseSteps
    \* a connection is taken only by the accept loop, with none in hand
    /\ (pending /\ ~pending' /\ handler_socket' = "open") =>
           (Phase = "Listening" /\ handler_socket = "None")
    \* every way out of the handler closes the connection socket first
    /\ (Phase \in {"Handshaking", "Serving"} /\ Phase' = "Listening") =>
           (handler_socket' = "None" /\ s2cEOF')

StopReturns == stpc = "close" /\ stpc' = "idle"

StopWhileListening ==
    /\ spc = "accept" /\ ~running
    /\ ~pending /\ handler_socket = "None"

StartReturned == spc = "done" /\ server_socket = "closed" /\ ~running

\* the loop's next step after the flag was cleared is its exit
C15_Step == (spc = "accept" /\ ~running /\ spc' # spc) => spc' = "cleanup"

StopStepOnConnection == stpc' # stpc /\ handler_socket = "open"

C16_Step ==
    /\ StopStepOnConnection =>
          /\ UNCHANGED <<handler_socket, srv, spc, c2s, s2c, c2sEOF, s2cEOF,
                         pending, nconn>>
          /\ UNCHANGED <<last_received_message, event, clientVars, ret, hist>>
    \* on the reliable network nothing ends a handshake before its key
    /\ Phase = "Handshaking" =>
          (Phase' = "Handshaking" \/ (Phase' = "Serving" /\ IsKey(srv'.aes_key)))

\* C16: stop() leaves an accepted connection alone: it changes the running
\* flag and the listening socket only, the connection's socket stays open
\* and a handshake in progress runs on to its own end.
C16_StopFrame == [][C16_Step]_vars

\* the handshake of an accepted connection completed on a stopped server
C16_Witness ==
    /\ ~running /\ server_socket = "closed" /\ stpc = "idle"
    /\ spc = "serve_loop" /\ handler_socket = "open"
    /\ IsKey(srv.aes_key) /\ hist.ckey = srv.aes_key /\ connected

\* ---------------------------------------------------------------------- C17
\* the bytes the reads have taken from the stream so far
RxConsumed == IF rx.pc = "len" THEN rx.data ELSE rx.hdr \o rx.data
\* the bytes the call in progress, or the last one, was asked for
RxWanted == IF rx.hdr = <<>> THEN HDR_LEN ELSE HDR_LEN + rx.num_bytes

\* C17: for every way the transport splits the stream, _receive_exact(n)
\* returns exactly the next n bytes and consumes none beyond them; it
\* returns None, and the field read fails, exactly when the peer closed
\* before the n bytes had arrived, inside the 4-byte length or inside the
\* payload (or when the payload is empty).
C17_ReceiveExact ==
    rx.pc # "idle" =>
        /\ RxConsumed \o rx.buf \o rx.later = rx.total
        /\ Len(rx.data) <= rx.num_bytes
        /\ rx.pc = "payload" => rx.hdr # <<>>
        /\ rx.hdr # <<>> =>
              /\ Len(rx.hdr) = HDR_LEN
              /\ rx.hdr = Take(rx.total, HDR_LEN)
              /\ rx.num_bytes = FromBytes(rx.hdr)
        /\ rx.st = "ok" =>
              /\ Len(rx.data) = rx.num_bytes
              /\ rx.hdr \o rx.data = Take(rx.total, HDR_LEN + rx.num_bytes)
              /\ rx.buf \o rx.later = Drop(rx.total, HDR_LEN + rx.num_bytes)
        /\ rx.st = "none" =>
              \/ /\ rx.closed /\ rx.buf = <<>> /\ rx.later = <<>>
                 /\ Len(rx.total) < RxWanted
              \/ rx.hdr # <<>> /\ rx.num_bytes = 0
        /\ (rx.pc = "done" /\ Len(rx.total) >= RxWanted /\ rx.num_bytes > 0) =>
              rx.st = "ok"

\* the peer closed inside the payload, after part of it had been read
C17_Witness ==
    /\ rx.pc = "done" /\ rx.st = "none"
    /\ rx.hdr # <<>> /\ rx.num_bytes = 2 /\ Len(rx.data) = 1

\* ---------------------------------------------------------------------- C18
\* send_message returned True on this step
SendSucceeds == Len(hist'.sent) = Len(hist.sent) + 1

\* the four fields a step appended to the client's stream
Written == SubSeq(c2s', Len(c2s) + 1, Len(c2s'))

C18_Step ==
    (SendSucceeds /\ ConnUp) =>
        /\ Take(c2s', Len(c2s)) = c2s
        /\ Len(Written) = 4
        /\ LET nlen == Written[1]
               nonce == Written[2]
               clen == Written[3]
               ct == Written[4] IN
           /\ IsHdr(nlen) /\ nlen[2] = NONCE_LEN
           /\ nonce \in {Nonce(n) : n \in Nonces}
           /\ PayloadLen(nonce) = nlen[2]
           /\ IsHdr(clen) /\ clen[2] = PayloadLen(ct) /\ clen[2] > 0
           /\ Len(ToBytes4(nlen[2])) = HDR_LEN /\ FromBytes(ToBytes4(nlen[2])) = nlen[2]
           /\ Len(ToBytes4(clen[2])) = HDR_LEN /\ FromBytes(ToBytes4(clen[2])) = clen[2]
           /\ ct = AeadSeal(aesgcm, nonce, Last(hist'.sent), NoAad)

\* C18: every successful send_message writes exactly one ciphertext frame:
\* the nonce length, which is 12, the nonce, the ciphertext length, the
\* ciphertext; each length is 4 bytes big-endian and equals the size of
\* the payload it precedes, and the plaintext is sealed under the
\* channel key and that nonce with no associated data.
C18_CiphertextFrame == [][C18_Step]_vars

\* two frames written one after the other are unread in the stream
C18_Witness ==
    /\ Len(hist.sent) = 2 /\ Len(c2s) = 8 /\ ConnUp
    /\ c2s[5] = Hdr(NONCE_LEN) /\ c2s[8][4] = hist.sent[2]

\* ---------------------------------------------------------------------- C19
\* send_message can be called and will write its frame
CanSend ==
    /\ connected /\ aesgcm # None /\ cpc = "idle" /\ ConnUp
    /\ Len(hist.sent) < MaxSend

FinallyStates == {"fin_disconnect", "fin_stop", "fin_join", "m_exit"}
TeardownDone == bench.td.disconnect /\ bench.td.stop /\ bench.td.join

C20_State ==
    bench.pc # "idle" =>
        \* connect() returned False: the measure function raises
        /\ (bench.connect = "False" /\ bench.pc # "m_connect") =>
               bench.exc = "RuntimeError"
        \* the exception is on its way out through the finally clause
        /\ bench.exc # "none" =>
               (bench.connect = "False" /\ bench.pc \in FinallyStates \cup {"raised"})
        \* it leaves the measure function after the whole teardown
        /\ bench.pc \in {"m_exit", "raised"} => TeardownDone
        \* and no result is returned
        /\ bench.exc # "none" => bench.result = "none"

\* once connect() has failed no server is started, no sample is appended
\* and nothing catches the exception
C20_Step ==
    (bench.pc # "idle" /\ bench.exc # "none") =>
        /\ bench'.started = bench.started
        /\ bench'.samples = bench.samples
        /\ bench'.iter = bench.iter /\ bench'.mi = bench.mi
        /\ bench'.exc = bench.exc
        /\ bench'.result = "none"

\* C20: when connect() returns False in a benchmark iteration the measure
\* function raises, the teardown of that iteration (client disconnect,
\* server stop, bounded join) runs before the exception leaves it,
\* run_all_benchmarks lets the exception through, starts no further
\* iteration of any mode and returns no result.
C20_ConnectFailureAborts == []C20_State /\ [][C20_Step]_vars

\* the run was aborted by the second handshake of a hybrid iteration,
\* after the classical iterations had all been measured
C20_Witness ==
    /\ bench.pc = "raised" /\ TeardownDone
    /\ ModeOrder[bench.mi] = "hybrid" /\ bench.part = "pqc"
    /\ "classical" \in DOMAIN bench.samples
    /\ Len(bench.samples["classical"]) = IterationsPerMode

\* ---------------------------------------------------------------------- C21
\* C21 as stated: in every interleaving of a measure function with the
\* server thread it starts, the listening socket is bound and listening
\* when the client issues its connect.
C21_AsStated == bench.dialed \in {"none", "listening"}

\* ---------------------------------------------------------------------- C22
\* the step on which the server of the next call is created
NextServerCreated == bench.pc = "server" /\ bench.iter >= 1 /\ bench'.pc = "thread"

\* C22 as stated: when the server of iteration i+1 is created, the client
\* of iteration i is disconnected, stop() has been called and has returned,
\* and the server thread of iteration i has terminated.
C22_AsStated ==
    [][NextServerCreated =>
          /\ bench.td.disconnect /\ client_socket = "None" /\ ~connected
          /\ bench.td.stop /\ stpc = "idle"
          /\ bench.td.join /\ spc = "done"]_vars

\* ---------------------------------------------------------------------- C23
\* C23 as stated: between the start and the end of the timer the client
\* performs only connect() (socket open, connect, handshake) and no other
\* client operation.
C23_AsStated == bench.timer = "stopped" => bench.timed = <<"connect">>

\* ---------------------------------------------------------------------- C24
\* b of the statement, in units of 1/Scale ms
PenaltyBase ==
    (bench.elapsed_ms + Max(bench.latency_ms, 0))
        * (100 + bench.packet_loss_percent) * 500 * UniformSteps

\* C24: _simulate_network_penalties(raw, latency, loss) returns exactly
\* raw + max(latency, 0) when loss <= 0; when loss > 0 it returns a value
\* in [b, b + b*loss/500] with b = (raw + max(latency, 0)) * (1 + loss/100);
\* (100, 30, 0) gives 130 and (100, 30, 2) a value in
\* [132.6, 132.6 + 132.6*0.004]; the result is never below raw (raw >= 0).
C24_Penalties ==
    bench.pc = "sim_returned" =>
        /\ bench.packet_loss_percent <= 0 =>
              bench.adjusted = (bench.elapsed_ms + Max(bench.latency_ms, 0)) * Scale
        /\ bench.packet_loss_percent > 0 =>
              /\ PenaltyBase <= bench.adjusted
              /\ bench.adjusted - PenaltyBase
                    <= (PenaltyBase \div 500) * bench.packet_loss_percent
        /\ (bench.elapsed_ms = 100 /\ bench.latency_ms = 30
              /\ bench.packet_loss_percent = 0) => bench.adjusted = 130 * Scale
        /\ (bench.elapsed_ms = 100 /\ bench.latency_ms = 30
              /\ bench.packet_loss_percent = 2) =>
              /\ 1326 * (Scale \div 10) <= bench.adjusted
              /\ bench.adjusted <= 1331304 * (Scale \div 10000)
        /\ bench.adjusted >= bench.elapsed_ms * Scale

\* the call (100, 30, 2) has returned a value strictly inside its interval
C24_Witness ==
    /\ bench.pc = "sim_returned"
    /\ bench.elapsed_ms = 100 /\ bench.latency_ms = 30
    /\ bench.packet_loss_percent = 2
    /\ 1326 * (Scale \div 10) < bench.adjusted
    /\ bench.adjusted < 1331304 * (Scale \div 10000)

\* ---------------------------------------------------------------------- C25
HybridBlock == bench.pc \notin {"idle", "report", "returned"}
                  /\ bench.mi <= Len(ModeOrder) /\ ModeOrder[bench.mi] = "hybrid"
\* the measure function returns its result, in a hybrid iteration
HybridPartReturns(part) ==
    /\ HybridBlock /\ bench.pc = "m_exit" /\ bench.exc = "none"
    /\ bench.part = part /\ bench'.pc # "m_exit"

C25_Step ==
    \* the classical handshake has been run and torn down; its result is
    \* kept and the post-quantum function is entered at once
    /\ HybridPartReturns("classical") =>
          /\ TeardownDone
          /\ bench'.pc = "m_start" /\ bench'.part = "pqc"
          /\ bench'.iter = bench.iter
          /\ bench'.samples = bench.samples
          /\ bench'.log = Append(bench.log, <<"hybrid", bench.iter, "classical",
                                              bench'.classical_time>>)
    \* the post-quantum handshake of the same iteration returns: the sample
    \* appended is the sum of the two results
    /\ HybridPartReturns("pqc") =>
          LET n == Len(bench'.log) IN
          /\ n = Len(bench.log) + 1 /\ n >= 2
          /\ SubSeq(bench'.log, 1, n - 1) = bench.log
          /\ bench'.log[n - 1][1] = "hybrid" /\ bench'.log[n][1] = "hybrid"
          /\ bench'.log[n - 1][2] = bench.iter /\ bench'.log[n][2] = bench.iter
          /\ bench'.log[n - 1][3] = "classical" /\ bench'.log[n][3] = "pqc"
          /\ bench'.samples["hybrid"] =
                Append(bench.samples["hybrid"],
                       bench'.log[n - 1][4] + bench'.log[n][4])
          /\ Len(bench'.samples["hybrid"]) = bench.iter
    \* inside a hybrid iteration the post-quantum part is entered from the
    \* return of the classical part and from nowhere else
    /\ (HybridBlock /\ bench.part # "pqc" /\ bench'.part = "pqc") =>
          HybridPartReturns("classical")

\* C25: each hybrid sample is the sum of one classical measurement and one
\* post-quantum measurement taken in that iteration, the classical
\* handshake run and torn down first and the post-quantum handshake run
\* immediately after it.
C25_HybridSum == [][C25_Step]_vars

\* a run has returned hybrid samples that differ from one another, each
\* above what the two handshakes took
C25_Witness ==
    /\ bench.pc = "returned" /\ "hybrid" \in bench.modes
    /\ Len(bench.samples["hybrid"]) = IterationsPerMode
    /\ bench.samples["hybrid"][1] # bench.samples["hybrid"][2]
    /\ bench.samples["hybrid"][1] > 300 * Scale

\* ---------------------------------------------------------------------- C26
\* the measurements taken for a mode, in the order of the calls
Measured(m) ==
    LET calls == SelectSeq(bench.log, LAMBDA e : e[1] = m) IN
    IF m = "hybrid"
    THEN [i \in 1..(Len(calls) \div 2) |-> calls[2 * i - 1][4] + calls[2 * i][4]]
    ELSE [i \in 1..Len(calls) |-> calls[i][4]]

\* C26: when run_all_benchmarks returns, every selected mode among
\* classical, pqc and hybrid has exactly ITERATIONS_PER_MODE samples, in
\* the order they were taken, its reported mean is the mean of exactly
\* those samples, and a mode that was not selected has neither samples nor
\* a mean.
C26_SamplesAndMeans ==
    bench.pc = "returned" =>
        /\ \A m \in {"classical", "pqc", "hybrid"} :
              IF m \in bench.modes
              THEN /\ m \in DOMAIN bench.samples
                   /\ Len(bench.samples[m]) = IterationsPerMode
                   /\ bench.samples[m] = Measured(m)
                   /\ m \in DOMAIN bench.means
                   /\ bench.means[m].n = IterationsPerMode
                   /\ bench.means[m].sum = SeqSum(Measured(m))
              ELSE /\ m \notin DOMAIN bench.samples
                   /\ m \notin DOMAIN bench.means
        /\ DOMAIN bench.means \subseteq {"classical", "pqc", "hybrid"}

\* a run of classical and hybrid only has returned, with classical samples
\* that differ from one another
C26_Witness ==
    /\ bench.pc = "returned"
    /\ bench.modes = {"classical", "hybrid", "other"}
    /\ bench.samples["classical"][1] > bench.samples["classical"][2]
    /\ bench.means["hybrid"].n = IterationsPerMode

\* ---------------------------------------------------------------------- C27
\* the step on which the classical client's _perform_key_exchange runs and
\* connect() returns
ClassicalExchangeStep == mode = "classical" /\ cpc = "cl_recv_pub" /\ cpc' = "idle"
\* a field was read and load_pem_public_key accepts it
Deserialized(r) == r.st = "ok" /\ r.v[1] \in {"ecpub", "pem"}

C27_Step ==
    ClassicalExchangeStep =>
        LET r == ReceiveField(s2c, s2cEOF) IN
        \* the public key is sent only after the server's key was read and
        \* deserialized, and it is the only thing sent
        /\ (c2s' # c2s \/ hist'.wire # hist.wire) =>
              /\ Deserialized(r)
              /\ hist'.wire = Append(hist.wire, "pub_c")
              /\ c2s' \in {c2s, c2s \o Frame(EcPub("C"))}
        \* a failed read or deserialization: nothing is sent
        /\ ~Deserialized(r) => (c2s' = c2s /\ hist'.wire = hist.wire)
        \* a failed read, deserialization or exchange: no key
        /\ (~Deserialized(r) \/ r.v[1] # "ecpub") =>
              /\ hist'.ckey = None /\ aesgcm' = None /\ ~connected'
              /\ ret'.connect = "False" /\ client_socket' = "None"
        \* a key that is returned is the whole derived key
        /\ hist'.ckey # None =>
              /\ hist'.ckey = HKDFDerive(ECDH("C", r.v))
              /\ KeyLen(hist'.ckey) = HKDF_LENGTH
              /\ aesgcm' = hist'.ckey /\ connected'

C27_State ==
    mode = "classical" =>
        /\ cpc = "cl_recv_pub" =>
              (c2s = <<>> /\ hist.wire \in {<<>>, <<"pub_s">>} /\ hist.ckey = Pending)
        /\ hist.ckey \in {Pending, None} \/ (IsKey(hist.ckey) /\ KeyLen(hist.ckey) = HKDF_LENGTH)
        /\ aesgcm # None => aesgcm = hist.ckey

\* C27: the classical client sends its public key only after it has
\* received and deserialized the server's public key; if reading or
\* deserializing the server key fails it sends nothing, and any read,
\* deserialization or shared-secret computation failure makes
\* _perform_key_exchange return no key, never a partial one.
C27_ClassicalClientOrder == []C27_State /\ [][C27_Step]_vars

\* the client read a key that deserializes, sent its own public key, and
\* the computation of the shared secret failed: connect() returned False
C27_Witness ==
    /\ mode = "classical" /\ cpc = "idle"
    /\ hist.wire = <<"pub_s", "pub_c">>
    /\ hist.ckey = None /\ aesgcm = None /\ ret.connect = "False"
    /\ client_socket = "None"

\* ---------------------------------------------------------------------- C28
\* positions of the server thread whose next statement is a socket accept,
\* receive or send, or the setting of the event
IOPositions ==
    {"accept", "hs_send_sigpk", "hs_recv_sigpk", "hs_recv_kempk", "hs_recv_sig",
     "cl_send_pub", "cl_recv_pub", "serve_recv", "serve_event"}

C28_Step ==
    \* the statement executed with the lock held is the assignment and
    \* nothing else: no byte is read or written, no connection accepted or
    \* closed, the event is not touched
    /\ (spc' # spc /\ ServerHoldsLock) =>
          /\ spc' = "serve_event"
          /\ last_received_message' = srv.message
          /\ UNCHANGED <<event, c2s, s2c, c2sEOF, s2cEOF, pending,
                         handler_socket, server_socket, running>>
    \* and the assignment is made nowhere else
    /\ ~(spc' # spc /\ ServerHoldsLock) => UNCHANGED last_received_message
    \* a step that accepts, reads, writes or sets the event holds no lock
    /\ (spc' # spc /\ (c2s' # c2s \/ s2c' # s2c \/ pending' # pending
                         \/ event' # event \/ handler_socket' # handler_socket)) =>
          ~ServerHoldsLock

\* C28: the server's lock is held only around the assignment of
\* last_received_message: it is never held during a socket accept, receive
\* or send, nor while the message-received event is being set.
C28_LockScope == [](spc \in IOPositions => ~ServerHoldsLock) /\ [][C28_Step]_vars

\* the assignment has been made and the lock released; the event of this
\* message is not yet set
C28_Witness ==
    /\ spc = "serve_event" /\ ~event
    /\ hist.delivered # <<>>
    /\ last_received_message = Last(hist.delivered)

\* ---------------------------------------------------------------------- C29
\* stop() has been called on the server of call i and has returned, and no
\* connection is pending, being handled or open on the client's side
StopReturnedQuiet(i) ==
    /\ bench.iter = i /\ bench.td.stop /\ stpc = "idle"
    /\ ~pending /\ handler_socket = "None" /\ client_socket = "None"

\* C29 as stated: a stop request is never lost: whenever stop() has
\* returned and no connection is in progress, start() eventually returns,
\* also when stop() was executed before start() set running = True.
\* (The thread of a call is followed until the next call's server is
\* created.)
C29_AsStated ==
    \A i \in 1..IterationsPerMode :
        StopReturnedQuiet(i) ~> (spc = "done" \/ bench.iter # i)

\* ---------------------------------------------------------------------- C30
HandshakePositions ==
    {"hs_send_sigpk", "hs_recv_sigpk", "hs_recv_kempk", "hs_recv_sig",
     "cl_send_pub", "cl_recv_pub"}
\* the step on which the server-side handshake returns no key
HandshakeReturnsNone == spc \in HandshakePositions /\ hist'.skey = None

C30_Step ==
    \* the handler returns at once: the connection socket is closed, the
    \* stored message and the event are as they were, the server keeps
    \* running with its listening socket and is back in its accept loop
    /\ HandshakeReturnsNone =>
          /\ spc' = "accept"
          /\ handler_socket = "open" /\ handler_socket' = "None" /\ s2cEOF'
          /\ UNCHANGED <<last_received_message, event, running, server_socket>>
          /\ running /\ server_socket = "listening"
    \* a handshake is left for the accept loop only with no key, and for
    \* the serving loop only with one
    /\ (spc \in HandshakePositions /\ spc' # spc) =>
          \/ spc' \in HandshakePositions /\ hist'.skey = Pending
          \/ spc' = "accept" /\ hist'.skey = None
          \/ spc' = "serve_loop" /\ IsKey(hist'.skey) /\ srv'.aes_key = hist'.skey

C30_State ==
    \* after the failure nothing of the connection is served or delivered
    /\ hist.skey = None =>
          /\ spc = "accept" /\ handler_socket = "None" /\ s2cEOF
          /\ hist.delivered = <<>>
          /\ running /\ server_socket = "listening"
    /\ spc \in ServeStates => IsKey(hist.skey)
    \* and the next connection is accepted
    /\ (hist.prevfail /\ pending) => (spc = "accept" /\ ENABLED Accept)

\* C30: when the server-side handshake returns no key (short read, failed
\* signature verification or any exception), the handler never enters the
\* serving loop, last_received_message and the message-received event are
\* left unchanged, the connection socket is closed, and the server stays
\* running and accepts the next connection.
C30_HandshakeFailure == []C30_State /\ [][C30_Step]_vars

\* after a handshake that returned no key the server has accepted the next
\* connection and completed its handshake
C30_Witness ==
    /\ hist.prevfail /\ nconn = 2
    /\ spc = "serve_recv" /\ IsKey(hist.skey) /\ running
    /\ connected /\ aesgcm = hist.skey

\* ---------------------------------------------------------------------- C31
\* the server's handshake returned a key and the client's returned none
ClientAbortedAlone == mode = "pqc" /\ IsKey(hist.skey) /\ hist.ckey = None

C31_State ==
    ClientAbortedAlone =>
       \* connect() has disconnected: the client's end is closed and
       \* nothing of it is left to read
       /\ c2sEOF /\ c2s = <<>> /\ client_socket = "None" /\ ~connected
       \* so the receive of the serving loop does not block
       /\ spc = "serve_recv" => ENABLED ServerReceive
       \* no message of the connection is sent, stored or signalled
       /\ hist.sent = <<>> /\ hist.delivered = <<>> /\ ~hist.sentinel
       /\ spc \notin {"serve_store", "serve_event"}
       /\ spc \in {"serve_loop", "serve_recv", "accept"}
       \* back in the accept loop, the read had returned None
       /\ spc = "accept" =>
             /\ hist.recvfail = 0 /\ handler_socket = "None" /\ s2cEOF
             /\ running /\ server_socket = "listening"

C31_Step ==
    (ClientAbortedAlone /\ spc = "serve_recv" /\ spc' # spc) =>
       /\ spc' = "accept" /\ hist'.recvfail = 0
       /\ UNCHANGED <<last_received_message, event>>

\* C31: when the post-quantum server has completed its handshake and the
\* client aborts its own (a failed verification of the ciphertext, a field
\* cut short) and disconnects, the server's read returns None, the serving
\* loop ends with no message delivered, and the server is back in its
\* accept loop, listening; it does not stay in the serving loop.
C31_PeerClosedEndsServing ==
    /\ []C31_State
    /\ [][C31_Step]_vars
    /\ ClientAbortedAlone ~>
          (spc = "accept" /\ handler_socket = "None"
             /\ server_socket = "listening")

\* the client rejected the signature over the ciphertext, the server had
\* entered its serving loop and has left it on the closed stream
C31_Witness ==
    /\ ClientAbortedAlone /\ hist.cverify = "failed" /\ hist.sverify = "ok"
    /\ spc = "accept" /\ hist.recvfail = 0 /\ handler_socket = "None"
    /\ last_received_message = None

\* ---------------------------------------------------------------------- C32
\* stop() has returned and the handler is in its serving loop
StoppedWhileServing ==
    /\ ~running /\ stpc = "idle" /\ server_socket # "listening"
    /\ spc \in ServeStates
\* the stores the handler can still make once the flag is cleared: the one
\* of the message its receive is waiting for or has returned
StoresAhead == IF spc \in {"serve_recv", "serve_store"} THEN 1 ELSE 0
\* what of the connection has been stored, and what may still be
StoreBudget == Len(hist.delivered) + StoresAhead

C32_Step ==
    \* a receive is begun only with the flag set
    /\ (spc' = "serve_recv" /\ spc # "serve_recv") =>
          (spc = "serve_loop" /\ running)
    \* with the flag cleared the loop test ends the handler: nothing is
    \* read, stored or signalled, what the client sent stays unread
    /\ (spc = "serve_loop" /\ ~running /\ spc' # spc) =>
          /\ spc' = "accept" /\ handler_socket' = "None"
          /\ UNCHANGED <<last_received_message, event, hist>>
    \* the flag stays cleared while the connection is served
    /\ (spc \in ServeStates /\ ~running) => ~running'
    \* and every store made after stop() has returned is paid for by the
    \* receive that was in progress
    /\ (StoppedWhileServing /\ spc' \in ServeStates) =>
          /\ StoreBudget' <= StoreBudget
          /\ ~(spc = "serve_store" /\ StoresAhead' = 0) =>
                UNCHANGED last_received_message

\* C32: once stop() has returned while a connection is served, at most one
\* further message is stored, the one whose receive was in progress: the
\* serving loop reads the flag before each receive and, finding it
\* cleared, ends without reading another message.
C32_StopEndsServing ==
    /\ [][C32_Step]_vars
    /\ [](StoppedWhileServing => StoresAhead <= 1)

\* the handler has left its loop on the cleared flag with the second of
\* two messages unread: the connection is up, no sentinel, no failed read
C32_Witness ==
    /\ ~running /\ stpc = "idle" /\ server_socket = "closed"
    /\ handler_socket = "None" /\ spc \in {"accept", "cleanup", "done"}
    /\ Len(hist.sent) = 2 /\ Len(hist.delivered) = 1
    /\ ~hist.sentinel /\ hist.recvfail = -1
    /\ connected /\ ~c2sEOF

\* ---------------------------------------------------------------------- C33
\* what disconnect() leaves of the client
ClientCleared == ~connected /\ aesgcm = None /\ client_socket = "None"
\* the caller is outside connect() and no connect() has succeeded since
\* the client was last cleared
CallerDown == cpc = "idle" /\ ~connected

C33_State ==
    \* disconnect() can be called whenever the caller is outside connect(),
    \* and it returns
    /\ cpc = "idle" => ENABLED Disconnect
    \* a client that is not connected holds neither socket nor key
    /\ CallerDown => ClientCleared
    \* on a cleared client a further call changes nothing
    /\ (cpc = "idle" /\ ClientCleared) => ~ENABLED <<Disconnect>>_vars
    \* and there send_message returns
    /\ CallerDown => ENABLED AttackedSendMessage

C33_Step ==
    \* every call leaves the three fields cleared and closes the stream
    /\ Disconnect =>
          /\ ~connected' /\ aesgcm' = None /\ client_socket' = "None"
          /\ client_socket = "open" => c2sEOF'
          /\ UNCHANGED <<serverVars, c2s, ret, hist, nconn>>
    \* until connect() succeeds again nothing is written and send_message
    \* returns False
    /\ (CallerDown /\ cpc' = "idle") =>
          /\ ~connected' /\ aesgcm' = None
          /\ Len(c2s') <= Len(c2s) /\ hist'.sent = hist.sent
          /\ ret'.send # ret.send => ret'.send = "False"
    \* the client is connected again only by a connect() that returns True
    /\ (~connected /\ connected') =>
          (cpc # "idle" /\ cpc' = "idle" /\ ret'.connect = "True"
             /\ IsKey(aesgcm') /\ client_socket' = "open")

\* C33: disconnect() on either client is total and idempotent: whenever it
\* is called it returns with connected False, the AEAD key and the socket
\* cleared, a further call changes nothing, and until a new connect()
\* succeeds every send_message returns False and writes no byte.
C33_DisconnectTotal == []C33_State /\ [][C33_Step]_vars

\* a client that had connected and sent was disconnected, and its next
\* send_message returned False
C33_Witness ==
    /\ ClientCleared /\ cpc = "idle"
    /\ ret.connect = "True" /\ ret.send = "False"
    /\ Len(hist.sent) = 1 /\ c2sEOF

\* ---------------------------------------------------------------------- C34
\* the next field of the stream has length 0
ZeroField(wire) == wire # <<>> /\ wire[1] = Hdr(0)
\* the ciphertext field of the frame at the head of the stream has
\* length 0, behind a nonce that has not
ZeroCiphertext(wire) ==
    /\ Len(wire) >= 3 /\ IsHdr(wire[1]) /\ wire[1] # Hdr(0)
    /\ wire[3] = Hdr(0)
ServerFieldReads == {"hs_recv_sigpk", "hs_recv_kempk", "hs_recv_sig"}
ClientFieldReads == {"hs_recv_sigpk", "hs_recv_ct", "hs_recv_sig"}
\* what a read of a field returns on a closed, drained stream
ClosedRead == ReceiveField(<<>>, TRUE)

C34_State ==
    \* a read of a zero-length field returns what a read of a closed
    \* stream returns, None, and does not wait for the peer
    /\ ClosedRead.st = "none"
    /\ ZeroField(c2s) =>
          /\ ReceiveField(c2s, c2sEOF).st = ClosedRead.st
          /\ ReceiveField(c2s, c2sEOF).v = ClosedRead.v
    /\ ZeroField(s2c) =>
          /\ ReceiveField(s2c, s2cEOF).st = ClosedRead.st
          /\ ReceiveField(s2c, s2cEOF).v = ClosedRead.v
    \* and so does the read of a frame with an empty nonce or ciphertext
    /\ (spc = "serve_recv" /\ (ZeroField(c2s) \/ ZeroCiphertext(c2s))) =>
          ReceiveEncryptedMessage(c2s, c2sEOF, srv.aes_key).st = "none"

C34_Step ==
    \* the server's handshake returns no key
    /\ (spc \in ServerFieldReads /\ ZeroField(c2s) /\ spc' # spc) =>
          /\ hist'.skey = None /\ spc' = "accept"
          /\ handler_socket' = "None" /\ UNCHANGED s2c
    \* the client's handshake returns no key and connect() returns False
    /\ (cpc \in ClientFieldReads /\ ZeroField(s2c) /\ cpc' # cpc) =>
          /\ hist'.ckey = None /\ cpc' = "idle" /\ ret'.connect = "False"
          /\ ~connected' /\ aesgcm' = None /\ UNCHANGED c2s
    \* the frame read returns no message and the serving loop ends
    /\ (spc = "serve_recv" /\ (ZeroField(c2s) \/ ZeroCiphertext(c2s))
          /\ spc' # spc) =>
          /\ spc' = "accept" /\ handler_socket' = "None"
          /\ hist'.recvfail = Len(hist.delivered)
          /\ hist'.delivered = hist.delivered
          /\ UNCHANGED <<last_received_message, event>>

\* C34: a length-prefixed field of length 0 is taken for a closed stream:
\* in the handshake of either role and in either field of the ciphertext
\* frame the read returns None at once, so the step returns no key or no
\* message and the exchange is over, although the stream is still open.
C34_ZeroLengthField == []C34_State /\ [][C34_Step]_vars

\* the server's handshake returned no key before any signature check, on
\* a stream that nobody closed or cut
C34_Witness ==
    /\ mode = "pqc" /\ hist.skey = None /\ hist.sverify = "none"
    /\ hist.tampered /\ ~hist.cut /\ ~c2sEOF /\ client_socket = "open"
    /\ spc = "accept" /\ handler_socket = "None"

\* ---------------------------------------------------------------------- C35
\* the calls a complete block makes
BlockCallbacks(name, label, names) ==
    IF name \in names
    THEN [i \in 1..IterationsPerMode |-> <<label, i, IterationsPerMode>>]
    ELSE <<>>
\* the calls of a complete run for the names asked for
ExpectedCallbacks(names) ==
    BlockCallbacks("classical", "Classical", names)
       \o BlockCallbacks("pqc", "PQC", names)
       \o BlockCallbacks("hybrid", "Hybrid", names)
SamplesOf(m) ==
    IF m \in DOMAIN bench.samples THEN Len(bench.samples[m]) ELSE 0
\* the iterations completed so far
SamplesTaken == SamplesOf("classical") + SamplesOf("pqc") + SamplesOf("hybrid")
BlockRank(m) == CASE m = "classical" -> 1 [] m = "pqc" -> 2 [] m = "hybrid" -> 3

C35_State ==
    LET names == Elems(bench.modes_to_run)
        expected == ExpectedCallbacks(names) IN
    /\ names \subseteq ModeNames
    \* one call for each completed iteration, in the order of the blocks
    \* and, in a block, of the iterations, whatever the list looked like
    /\ bench.progress_callback =>
          /\ SamplesTaken <= Len(expected)
          /\ bench.callbacks = SubSeq(expected, 1, SamplesTaken)
    /\ ~bench.progress_callback => bench.callbacks = <<>>
    \* and a run that returns has made them all
    /\ bench.pc = "returned" =>
          SamplesTaken =
             Cardinality(names \cap {"classical", "pqc", "hybrid"})
                * IterationsPerMode
    \* a block is run for the names in the list and for no other
    /\ DOMAIN bench.samples \subseteq names

C35_Step ==
    \* the measure calls follow the same order of blocks
    /\ (bench'.log # bench.log /\ bench.log # <<>>) =>
          /\ Len(bench'.log) = Len(bench.log) + 1
          /\ BlockRank(bench.log[Len(bench.log)][1])
                <= BlockRank(bench'.log[Len(bench'.log)][1])
    \* the callback is called once, on the step that appends the sample
    /\ bench'.callbacks # bench.callbacks =>
          /\ bench.pc = "m_exit" /\ bench'.pc = "loop"
          /\ Len(bench'.callbacks) = Len(bench.callbacks) + 1
          /\ bench'.callbacks[Len(bench'.callbacks)][2] = bench.iter
    /\ (bench.pc # "idle" /\ bench.progress_callback
          /\ bench'.samples # bench.samples /\ bench.pc = "m_exit") =>
          bench'.callbacks # bench.callbacks

\* C35: run_all_benchmarks runs the blocks in the order classical, pqc,
\* hybrid whatever the order or repetition of the names in modes_to_run,
\* and calls the progress callback once after each iteration, with the
\* iteration numbers 1 .. ITERATIONS_PER_MODE in increasing order and the
\* total ITERATIONS_PER_MODE, all calls of a block before those of the next.
C35_CallbackOrder == []C35_State /\ [][C35_Step]_vars

\* a run asked for hybrid, pqc, classical in that order has returned
C35_Witness ==
    /\ bench.pc = "returned" /\ bench.progress_callback
    /\ bench.modes_to_run = <<"hybrid", "pqc", "classical">>
    /\ Len(bench.callbacks) = 3 * IterationsPerMode
    /\ bench.callbacks[1] = <<"Classical", 1, IterationsPerMode>>
    /\ bench.callbacks[3 * IterationsPerMode] =
          <<"Hybrid", IterationsPerMode, IterationsPerMode>>

\* ---------------------------------------------------------------------- C36
\* max(latency_ms, 0.0) of the setting in force
LatencyAdded == IF bench.latency_ms > 0 THEN bench.latency_ms ELSE 0

C36_State ==
    (bench.packet_loss_percent = 0 /\ "hybrid" \in DOMAIN bench.samples) =>
       \A k \in 1..Len(bench.samples["hybrid"]) :
          \E raw_classical \in ElapsedMs("classical"),
             raw_pqc \in ElapsedMs("pqc") :
             /\ bench.samples["hybrid"][k] =
                   (raw_classical + raw_pqc + 2 * LatencyAdded) * Scale
             /\ LatencyAdded > 0 =>
                   bench.samples["hybrid"][k] #
                      (raw_classical + raw_pqc + LatencyAdded) * Scale

C36_Step ==
    bench.packet_loss_percent = 0 =>
       \* each of the two results carries the latency
       /\ HybridPartReturns("classical") =>
             bench'.classical_time = (bench.elapsed_ms + LatencyAdded) * Scale
       /\ HybridPartReturns("pqc") =>
             bench'.samples["hybrid"] =
                Append(bench.samples["hybrid"],
                       bench.classical_time
                          + (bench.elapsed_ms + LatencyAdded) * Scale)

\* C36: in hybrid mode the impairment model is applied to the classical
\* and to the post-quantum measurement separately, before they are added:
\* with packet loss 0 a hybrid sample is raw_classical + raw_pqc +
\* 2 * max(latency, 0), and not raw_classical + raw_pqc + max(latency, 0).
C36_HybridLatencyTwice == []C36_State /\ [][C36_Step]_vars

\* a run with latency 30 and no loss has returned its hybrid samples
C36_Witness ==
    /\ bench.pc = "returned" /\ bench.packet_loss_percent = 0
    /\ bench.latency_ms = 30 /\ "hybrid" \in DOMAIN bench.samples
    /\ Len(bench.samples["hybrid"]) = IterationsPerMode
    /\ bench.samples["hybrid"][1] = 360 * Scale

====
